---- MODULE Spec2Model ----
(***************************************************************************)
(* A model of the packet driver layer: the Driver contract (Driver.h) and  *)
(* the kernel-bypass burst-polling backend (DpdkDriver.cc).                *)
(*                                                                         *)
(* Two driver instances, A and B, are connected by a wire.  A frame is a   *)
(* sequence of cells.  The Ethernet header occupies three cells (the       *)
(* destination address, the source address, the ether type), one cell per  *)
(* field; every following cell is one byte of the caller's header or       *)
(* payload.  The driver never inspects data bytes, it only copies them, so *)
(* every data byte is given a distinct tag that names where it came from   *)
(* (header byte i, byte i of payload chunk c): a byte that is dropped,     *)
(* duplicated or moved by a copy shows up as a wrong tag.                  *)
(***************************************************************************)
EXTENDS Integers, Sequences, FiniteSets, TLC

VARIABLES
    ndebug,              \* TRUE: the build compiles assert() out (NDEBUG)
    built,               \* built[d]: how the constructor of driver d ended
    bandwidthGbps,       \* DpdkDriver::bandwidthGbps
    maxTransmitQueueSize, \* DpdkDriver::maxTransmitQueueSize
    localServiceLocator, \* history: the locator driver d was constructed with
    locatorString,       \* DpdkDriver::locatorString
    aborted,             \* aborted[d]: the process of driver d died on an assertion
    now,                 \* Cycles::rdtsc()
    rxRing,              \* rxRing[d]: hardware receive ring of d's port
    txRing,              \* txRing[d]: hardware transmit ring of d's port
    loopbackRing,        \* loopbackRing[d]: DpdkDriver::loopbackRing
    mbufsInUse,          \* mbufsInUse[d]: mbufs sendPacket took from packetPool, not yet freed
    packetBufPool,       \* packetBufPool[d]: [free: recycled slots, created: slots ever made]
    slotMem,             \* slotMem[d][s]: the PacketBuf s (dpdkAddress, payload)
    packetBufsUtilized,  \* DpdkDriver::packetBufsUtilized
    queueEstimator,      \* queueEstimator[d]: [currentTime, queueSize]
    receivedPackets,     \* receivedPackets[d]: the caller's std::vector<Received>
    stolen,              \* stolen[d]: payloads the caller took with steal() and still holds
    returned,            \* returned[d]: payloads the caller stole and has released once
    payloadChunks,       \* payloadChunks[d]: payloads of the PayloadChunks of the caller's Buffer
    ctx,                 \* ctx[d]: the dispatch lock, and where the polling context
                         \* and a worker are inside receivePackets and release
    sentLog,             \* history: sentLog[g] is the g-th sendPacket that built a frame
    arrivalLog,          \* history: arrivalLog[d] lists frames in order of arrival at d
    last                 \* history: the operation that produced the current state

vars == <<ndebug, built, bandwidthGbps, maxTransmitQueueSize,
          localServiceLocator, locatorString, aborted, now, rxRing, txRing, loopbackRing, mbufsInUse,
          packetBufPool, slotMem, packetBufsUtilized, queueEstimator,
          receivedPackets, stolen, returned, payloadChunks, ctx, sentLog,
          arrivalLog, last>>

\* What the build and the constructor fix for the life of a driver.
config == <<ndebug, built, bandwidthGbps, maxTransmitQueueSize,
            localServiceLocator, locatorString>>

\* What the operations of the driver itself, run one at a time, leave alone.
aside == <<ctx, payloadChunks>>

-----------------------------------------------------------------------------
(* Bounds of the model *)

MaxSends == 2              \* frames built by sendPacket over a run
MaxWideSends == 1          \* the same, where packets of every size are sent
MaxHeaderLen == 2          \* longest caller header
MaxChunks == 2             \* most chunks in a payload Buffer
MaxChunkLen == 3           \* longest payload chunk
RxRingCapacity == 2        \* descriptors of the hardware receive ring (NDESC)
TxRingCapacity == 1        \* descriptors of the hardware transmit ring (NDESC)
LoopbackRingCapacity == 1  \* usable entries of the loopback ring
PoolCapacity == 1          \* the pool capacity the specification speaks of
MaxThrottleSends == 3      \* frames built over a run that watches the estimator
MaxTime == 3               \* the last clock tick of a run
MaxEnvelopes == 3          \* envelopes in a vector whose envelopes are moved
MaxStrays == 2             \* frames a foreign station sends to one driver
MaxStrayLen == 4           \* cells of the longest of them
MaxRxWaiting == 17         \* most frames waiting in a receive ring of real size
MaxLoopbackWaiting == 33   \* most frames waiting in a loopback ring of real size

\* Sizes the driver's header fixes, scaled to the packets of the model: the
\* largest payload of a PacketBuf, and the data room of one mbuf.
MAX_PAYLOAD_SIZE == 6
MbufDataRoom == 10

(* Program constants *)

MAX_PACKETS_AT_ONCE == 32
MAX_DRAIN_TIME == 2000      \* Driver::MAX_DRAIN_TIME, in nanoseconds
DefaultGbps == 10           \* bandwidthGbps when the locator has no gbs option
TestGbps == 40              \* the bandwidth of the gbsOption test
TestQueueSize == 10000      \* maxTransmitQueueSize the test expects for it
TestLowQueueSize == 4016    \* maxTransmitQueueSize the test expects for gbs=1
\* The modulus of uint32_t arithmetic.  The model checker's integers are 32-bit
\* signed, so the modulus is scaled to 2^30; it stays far above every length
\* the model handles.
TwoTo32 == 2^30
BytesPerTick == 1           \* estimator bandwidth, in bytes per clock tick

Drivers == {"A", "B"}
NULL == 0

\* DpdkDriver::localMac
localMac(d) == IF d = "A" THEN 1 ELSE 2

Macs == {localMac(d) : d \in Drivers}

\* The driver whose port has the address mac.
PortOf(mac) == CHOOSE d \in Drivers : localMac(d) = mac

-----------------------------------------------------------------------------
(* Cells *)

MacCell(mac) == <<"mac", mac, 0>>
FAST == <<"type", 1, 0>>          \* HTONS(NetUtil::EthPayloadType::FAST)
Garbage == <<"?", 0, 0>>          \* a cell nobody has written

\* NetUtil::EthernetHeader: destAddress, srcAddress, etherType.
sizeofEtherAddr == Len(<<MacCell(1)>>)
sizeofEthernetHeader == Len(<<MacCell(1), MacCell(1), FAST>>)

\* The caller's header: headerLen bytes.
HeaderBytes(headerLen) == [i \in 1..headerLen |-> <<"h", i, 0>>]

\* A Buffer whose chunks have the given lengths.
BufferChunks(lens) ==
    [c \in 1..Len(lens) |-> [i \in 1..lens[c] |-> <<"p", c, i>>]]

RECURSIVE Flatten(_)
Flatten(chunks) ==
    IF chunks = <<>> THEN <<>> ELSE Head(chunks) \o Flatten(Tail(chunks))

RECURSIVE SumLens(_)
SumLens(lens) == IF lens = <<>> THEN 0 ELSE Head(lens) + SumLens(Tail(lens))

-----------------------------------------------------------------------------
(* Buffer::Iterator, as sendPacket uses it *)

IterSize(it) == SumLens([c \in 1..Len(it) |-> Len(it[c])])
IterIsDone(it) == it = <<>>
IterGetData(it) == Head(it)
IterGetLength(it) == Len(Head(it))
IterNext(it) == Tail(it)

\* rte_memcpy(dst + off, src, Len(src)); off counts from 0.
Memcpy(dst, off, src) ==
    LET n == IF off + Len(src) > Len(dst) THEN off + Len(src) ELSE Len(dst)
    IN [i \in 1..n |->
          IF i > off /\ i <= off + Len(src) THEN src[i - off]
          ELSE IF i <= Len(dst) THEN dst[i] ELSE Garbage]

-----------------------------------------------------------------------------
(* Bandwidth/queue estimator (QueueEstimator) *)

\* A faulty variant of the update: the backlog is not floored at zero.
EstimatorUpdateNoFloor(e, time) ==
    IF time > e.currentTime
    THEN [currentTime |-> time,
          queueSize |-> e.queueSize - (time - e.currentTime) * BytesPerTick]
    ELSE e

\* getQueueSize(time): the backlog drained at the configured bandwidth since
\* the last update, floored at zero; the baseline moves to time.
EstimatorUpdate(e, time) ==
    IF time > e.currentTime
    THEN LET drained == e.queueSize - (time - e.currentTime) * BytesPerTick
         IN [currentTime |-> time,
             queueSize |-> IF drained < 0 THEN 0 ELSE drained]
    ELSE e

getQueueSize(e, time) == EstimatorUpdate(e, time).queueSize

\* packetQueued(length, transmitTime)
packetQueued(e, length, transmitTime) ==
    LET u == EstimatorUpdate(e, transmitTime)
    IN [u EXCEPT !.queueSize = @ + length]

-----------------------------------------------------------------------------
(* DpdkDriver::getMaxPacketSize *)

getMaxPacketSize == MAX_PAYLOAD_SIZE - sizeofEthernetHeader

-----------------------------------------------------------------------------
(* DpdkDriver::DpdkDriver *)

\* A locator option is absent, holds an integer, or holds text that is not
\* one: <<kind, value>>.
Absent == <<"absent", 0>>
Malformed == <<"malformed", 0>>
IntOption(v) == <<"int", v>>

\* The constructor's arguments: no locator at all, or the options devport
\* and gbs of a locator.
NoLocator == [null |-> TRUE, mac |-> Absent, devport |-> Absent, gbs |-> Absent]
Locator(devport, gbs) ==
    [null |-> FALSE, mac |-> Absent, devport |-> devport, gbs |-> gbs]

\* A locator that names a MAC address as well; the address 0 is all zeroes.
LocatorAt(mac, devport, gbs) ==
    [null |-> FALSE, mac |-> mac, devport |-> devport, gbs |-> gbs]

\* What the fabric answers during initialisation.
Healthy == [poolOk |-> TRUE, numPorts |-> 1, linkUp |-> TRUE, mtuOk |-> TRUE,
            ringOk |-> TRUE]

\* A faulty variant of the queue size: the floor of two packets is left out.
MaxTransmitQueueSizeNoFloor(gbps, maxPacketSize) ==
    ((gbps * MAX_DRAIN_TIME) \div 8) % TwoTo32

\* maxTransmitQueueSize = (uint32_t) (double(bandwidthGbps) * MAX_DRAIN_TIME
\* / 8.0), raised to 2*maxPacketSize if it is below that.
MaxTransmitQueueSize(gbps, maxPacketSize) ==
    LET size == ((gbps * MAX_DRAIN_TIME) \div 8) % TwoTo32
    IN IF size < 2 * maxPacketSize THEN 2 * maxPacketSize ELSE size

\* The constructor, for a locator and a fabric: how it ends and the fields
\* it leaves.  getOption throws NoSuchKeyException for an absent option,
\* which the constructor catches, and BadValueException for a value that
\* does not convert, which it does not.
Construct(locator, env) ==
    LET devportBad == ~locator.null /\ locator.devport = Malformed
        portId == IF ~locator.null /\ locator.devport[1] = "int"
                  THEN locator.devport[2] ELSE 0
        gbsBad == ~locator.null /\ locator.gbs = Malformed
        gbps == IF ~locator.null /\ locator.gbs[1] = "int"
                THEN locator.gbs[2] ELSE DefaultGbps
        outcome ==
            IF devportBad THEN "DriverException"
            ELSE IF gbsBad THEN "BadValueException"
            ELSE IF ~env.poolOk THEN "DriverException"
            ELSE IF env.numPorts <= portId THEN "DriverException"
            ELSE IF ~env.linkUp THEN "DriverException"
            ELSE IF ~env.mtuOk THEN "DriverException"
            ELSE IF ~env.ringOk THEN "DriverException"
            ELSE "ready"
    IN [outcome |-> outcome,
        bandwidthGbps |-> IF devportBad \/ gbsBad THEN DefaultGbps ELSE gbps,
        maxTransmitQueueSize |->
            IF devportBad \/ gbsBad THEN 0
            ELSE MaxTransmitQueueSize(gbps, getMaxPacketSize)]

\* A locator string is the text of its options; fixedUp tells the string the
\* constructor formats from the string the caller's locator came from.
\* The string of a driver that was never constructed:
NoString == [fixedUp |-> FALSE, mac |-> Absent, devport |-> Absent, gbs |-> Absent]

\* ServiceLocator::getOriginalString
OriginalString(locator) ==
    [fixedUp |-> FALSE, mac |-> locator.mac, devport |-> locator.devport,
     gbs |-> locator.gbs]

\* A faulty variant of the locator string: the string is never fixed up.
LocatorStringAsGiven(d, locator) ==
    IF locator.null THEN NoString ELSE OriginalString(locator)

\* locatorString as the constructor of d leaves it: the original string of
\* the locator, replaced by "basic+dpdk:mac=%s,devport=%d" with the address
\* read from the NIC when the locator names no address or the all-zeroes one.
LocatorString(d, locator) ==
    LET portId == IF ~locator.null /\ locator.devport[1] = "int"
                  THEN locator.devport[2] ELSE 0
    IN IF locator.null \/ locator.mac = Absent \/ locator.mac = IntOption(0)
       THEN [fixedUp |-> TRUE, mac |-> IntOption(localMac(d)),
             devport |-> IntOption(portId), gbs |-> Absent]
       ELSE OriginalString(locator)

\* The driver d exists and its process runs.
Running(d) == built[d] = "ready" /\ ~aborted[d]

\* new DpdkDriver(context, locator) on a fabric that answers env.
construct(d, locator, env) ==
    LET r == Construct(locator, env)
    IN
    /\ built[d] = "unbuilt"
    /\ built' = [built EXCEPT ![d] = r.outcome]
    /\ bandwidthGbps' = [bandwidthGbps EXCEPT ![d] = r.bandwidthGbps]
    /\ maxTransmitQueueSize' =
           [maxTransmitQueueSize EXCEPT ![d] = r.maxTransmitQueueSize]
    /\ localServiceLocator' = [localServiceLocator EXCEPT ![d] = locator]
    /\ locatorString' =
           [locatorString EXCEPT ![d] = IF r.outcome = "ready"
                                        THEN LocatorString(d, locator) ELSE @]
    \* last.n: bandwidthGbps; last.m: maxTransmitQueueSize
    /\ last' = [op |-> "construct", driver |-> d, outcome |-> r.outcome,
                n |-> r.bandwidthGbps, m |-> r.maxTransmitQueueSize]
    /\ UNCHANGED <<ndebug, ctx, payloadChunks, aborted, now, rxRing, txRing,
                   loopbackRing, mbufsInUse, packetBufPool, slotMem,
                   packetBufsUtilized, queueEstimator, receivedPackets, stolen,
                   returned, sentLog, arrivalLog>>

-----------------------------------------------------------------------------
(* Driver::newAddress *)

\* A faulty variant: an absent option is reported like a malformed one.
NewAddressOneKind(mac) ==
    IF mac[1] = "int" THEN [outcome |-> "ok", address |-> mac[2]]
    ELSE [outcome |-> "BadValueException", address |-> NULL]

\* newAddress for a locator whose mac option is absent, malformed or names
\* an address: how the call ends and the Address it returns.
NewAddress(mac) ==
    IF mac = Absent THEN [outcome |-> "NoSuchKeyException", address |-> NULL]
    ELSE IF mac = Malformed THEN [outcome |-> "BadValueException", address |-> NULL]
    ELSE [outcome |-> "ok", address |-> mac[2]]

newAddress(d, mac) ==
    /\ Running(d)
    \* last.n: the Address returned
    /\ last' = [op |-> "newAddress", driver |-> d, outcome |-> NewAddress(mac).outcome,
                n |-> NewAddress(mac).address, m |-> 0]
    /\ UNCHANGED <<config, aside, aborted, now, rxRing, txRing, loopbackRing, mbufsInUse,
                   packetBufPool, slotMem, packetBufsUtilized, queueEstimator,
                   receivedPackets, stolen, returned, sentLog, arrivalLog>>

-----------------------------------------------------------------------------
(* DpdkDriver::getTransmitQueueSpace *)

\* A faulty variant of the conversion: the value stays unsigned.
ToIntUnsigned(u) == u

\* The conversion of a uint32_t to int.
ToInt(u) == IF u >= TwoTo32 \div 2 THEN u - TwoTo32 ELSE u

\* maxTransmitQueueSize - queueEstimator.getQueueSize(currentTime), computed
\* in uint32_t and returned as an int.
TransmitQueueSpace(maxSize, e, currentTime) ==
    ToInt((maxSize - getQueueSize(e, currentTime)) % TwoTo32)

getTransmitQueueSpace(d, currentTime) ==
    /\ Running(d)
    /\ queueEstimator' = [queueEstimator EXCEPT ![d] = EstimatorUpdate(@, currentTime)]
    \* last.n: the value returned; last.m: currentTime
    /\ last' = [op |-> "getTransmitQueueSpace", driver |-> d, outcome |-> "ok",
                n |-> TransmitQueueSpace(maxTransmitQueueSize[d], queueEstimator[d],
                                         currentTime),
                m |-> currentTime]
    /\ UNCHANGED <<config, aside, aborted, now, rxRing, txRing, loopbackRing, mbufsInUse,
                   packetBufPool, slotMem, packetBufsUtilized, receivedPackets,
                   stolen, returned, sentLog, arrivalLog>>

-----------------------------------------------------------------------------
(* DpdkDriver::sendPacket *)

\* The inputs of sendPacket: a header length and a payload iterator, which is
\* NULL or walks a Buffer of up to MaxChunks chunks.
RECURSIVE SeqsUpTo(_, _)
SeqsUpTo(S, n) ==
    IF n = 0 THEN {<<>>}
    ELSE LET shorter == SeqsUpTo(S, n - 1)
         IN shorter \cup {Append(q, x) : q \in {r \in shorter : Len(r) = n - 1}, x \in S}

PayloadArgs ==
    {[null |-> TRUE, lens |-> <<>>]} \cup
    {[null |-> FALSE, lens |-> l] : l \in SeqsUpTo(1..MaxChunkLen, MaxChunks)}

\* payload ? payload->size() : 0
PayloadSize(payload) ==
    IF payload.null THEN 0 ELSE IterSize(BufferChunks(payload.lens))

\* A faulty variant of the length: the Ethernet header is counted in.
TotalLengthFramed(headerLen, payload) ==
    (headerLen + PayloadSize(payload) + sizeofEthernetHeader) % TwoTo32

\* uint32_t totalLength = headerLen + (payload ? payload->size() : 0)
TotalLength(headerLen, payload) == (headerLen + PayloadSize(payload)) % TwoTo32

\* uint32_t datagramLength = totalLength + sizeof32(NetUtil::EthernetHeader)
DatagramLength(totalLength) == (totalLength + sizeofEthernetHeader) % TwoTo32

\* rte_pktmbuf_alloc(packetPool) and rte_pktmbuf_free(mbuf), on the number of
\* mbufs that are out of the pool.
PktmbufAlloc(n) == n + 1

\* A faulty variant of the free: the mbuf stays out of the pool.
PktmbufFreeForgotten(n) == n

PktmbufFree(n) == n - 1

\* rte_pktmbuf_append(mbuf, len): NULL when the mbuf has no room for len
\* more bytes, otherwise len unwritten cells.
PktmbufAppendFails(len) == len > MbufDataRoom

\* The Ethernet header sendPacket writes at the start of the frame.
WriteEthernetHeader(data, d, recipient) ==
    LET d1 == Memcpy(data, 0, <<MacCell(recipient)>>)
        d2 == Memcpy(d1, sizeofEtherAddr, <<MacCell(localMac(d))>>)
    IN Memcpy(d2, 2 * sizeofEtherAddr, <<FAST>>)

\* A faulty variant of the copy loop: p is not advanced past a chunk.
RECURSIVE CopyPayloadStuck(_, _, _)
CopyPayloadStuck(data, p, it) ==
    IF IterIsDone(it) THEN data
    ELSE CopyPayloadStuck(Memcpy(data, p, IterGetData(it)), p, IterNext(it))

\* while (payload && !payload->isDone()) { memcpy; p += getLength; next }
RECURSIVE CopyPayload(_, _, _)
CopyPayload(data, p, it) ==
    IF IterIsDone(it) THEN data
    ELSE CopyPayload(Memcpy(data, p, IterGetData(it)),
                     p + IterGetLength(it), IterNext(it))

\* The cells of the frame sendPacket builds in the mbuf.
BuildFrame(d, recipient, headerLen, payload) ==
    LET datagramLength == DatagramLength(TotalLength(headerLen, payload))
        data == [i \in 1..datagramLength |-> Garbage]
        eth == WriteEthernetHeader(data, d, recipient)
        p0 == sizeofEthernetHeader
        hdr == Memcpy(eth, p0, HeaderBytes(headerLen))
        p1 == p0 + headerLen
    IN IF payload.null THEN hdr
       ELSE CopyPayload(hdr, p1, BufferChunks(payload.lens))

\* loopback if src mac == dst mac
IsLoopback(d, recipient) == recipient = localMac(d)

\* The record of an operation: its name, its driver, how it ended and two
\* numbers that depend on the operation.
LastOp(op, d, outcome, n, m) ==
    [op |-> op, driver |-> d, outcome |-> outcome, n |-> n, m |-> m]

NoPayload == [null |-> TRUE, lens |-> <<>>]

sendPacket(d, recipient, headerLen, payload, allocOk) ==
    LET totalLength == TotalLength(headerLen, payload)
        datagramLength == DatagramLength(totalLength)
        gid == Len(sentLog) + 1
        mbuf == [cells |-> BuildFrame(d, recipient, headerLen, payload), gid |-> gid]
        \* backlog: what the estimator reports just before it is charged
        sent == [from |-> d, to |-> recipient, headerLen |-> headerLen,
                 null |-> payload.null, lens |-> payload.lens,
                 backlog |-> getQueueSize(queueEstimator[d], now)]
        \* last.n: totalLength; last.m: the recipient
        Done(outcome) == last' = LastOp("sendPacket", d, outcome, totalLength, recipient)
    IN
    /\ Running(d)
    /\ IF totalLength > MAX_PAYLOAD_SIZE /\ ~ndebug
       THEN \* assert(totalLength <= MAX_PAYLOAD_SIZE) fails
            /\ aborted' = [aborted EXCEPT ![d] = TRUE]
            /\ Done("assert")
            /\ UNCHANGED <<txRing, loopbackRing, mbufsInUse, queueEstimator,
                           sentLog, arrivalLog>>
       ELSE IF ~allocOk
       THEN \* rte_pktmbuf_alloc returned NULL
            /\ Done("allocFailed")
            /\ UNCHANGED <<aborted, txRing, loopbackRing, mbufsInUse,
                           queueEstimator, sentLog, arrivalLog>>
       ELSE IF PktmbufAppendFails(datagramLength)
       THEN \* rte_pktmbuf_append returned NULL; the mbuf is freed again
            /\ Done("appendFailed")
            /\ mbufsInUse' = [mbufsInUse EXCEPT ![d] = PktmbufFree(PktmbufAlloc(@))]
            /\ UNCHANGED <<aborted, txRing, loopbackRing, queueEstimator, sentLog,
                           arrivalLog>>
       ELSE /\ sentLog' = Append(sentLog, sent)
            /\ mbufsInUse' = [mbufsInUse EXCEPT ![d] = PktmbufAlloc(@)]
            /\ IF IsLoopback(d, recipient)
               THEN \* rte_ring_enqueue(loopbackRing, mbuf); the result is ignored
                    IF Len(loopbackRing[d]) < LoopbackRingCapacity
                    THEN /\ loopbackRing' = [loopbackRing EXCEPT ![d] = Append(@, mbuf)]
                         /\ arrivalLog' = [arrivalLog EXCEPT ![d] = Append(@, gid)]
                         /\ Done("loopback")
                         /\ UNCHANGED txRing
                    ELSE /\ Done("loopbackFull")
                         /\ UNCHANGED <<txRing, loopbackRing, arrivalLog>>
               ELSE \* rte_eth_tx_burst(portId, 0, &mbuf, 1); the result is ignored
                    IF Len(txRing[d]) < TxRingCapacity
                    THEN /\ txRing' = [txRing EXCEPT ![d] = Append(@, mbuf)]
                         /\ Done("tx")
                         /\ UNCHANGED <<loopbackRing, arrivalLog>>
                    ELSE /\ Done("txFull")
                         /\ UNCHANGED <<txRing, loopbackRing, arrivalLog>>
            /\ queueEstimator' = [queueEstimator EXCEPT
                                    ![d] = packetQueued(@, totalLength, now)]
            /\ UNCHANGED aborted
    /\ UNCHANGED <<config, aside, now, rxRing, packetBufPool, slotMem, packetBufsUtilized,
                   receivedPackets, stolen, returned>>

-----------------------------------------------------------------------------
(* The packet buffer pool (ObjectPool<PacketBuf>) *)

\* A PacketBuf as its constructor leaves it: an empty dpdkAddress; the payload
\* array is not initialised.
FreshPayload == [i \in 1..MAX_PAYLOAD_SIZE |-> Garbage]

\* packetBufPool.construct(): a recycled slot if there is one, otherwise a
\* newly allocated one.
PoolConstruct(pool) ==
    IF pool.free = <<>>
    THEN [slot |-> pool.created + 1,
          pool |-> [pool EXCEPT !.created = @ + 1]]
    ELSE [slot |-> pool.free[Len(pool.free)],
          pool |-> [pool EXCEPT !.free = SubSeq(@, 1, Len(@) - 1)]]

\* packetBufPool.destroy(buffer)
PoolDestroy(pool, slot) == [pool EXCEPT !.free = Append(@, slot)]

\* A PacketBuf after its destructor ran: the dpdkAddress is gone and what the
\* memory holds is indeterminate.
DestroyedPacketBuf == [dpdkAddress |-> NULL, payload |-> FreshPayload]

-----------------------------------------------------------------------------
(* DpdkDriver::receivePackets *)

Min(a, b) == IF a < b THEN a ELSE b

\* rte_eth_rx_burst(portId, 0, mPkts, MAX_PACKETS_AT_ONCE/2): how many frames
\* it takes from a receive ring holding n.
RxBurstCount(n) == Min(n, MAX_PACKETS_AT_ONCE \div 2)

\* A faulty variant of loopbackPkts: the count is not cut to the room left
\* in mPkts.
LoopbackCountUnclamped(incomingPkts, ringCount) == ringCount

\* loopbackPkts, for incomingPkts frames from the NIC and ringCount frames
\* waiting in the loopback ring.
LoopbackCount(incomingPkts, ringCount) ==
    IF incomingPkts + ringCount > MAX_PACKETS_AT_ONCE
    THEN MAX_PACKETS_AT_ONCE - incomingPkts
    ELSE ringCount

\* A faulty variant of the poll: the loopback frames are taken from the end
\* of the ring.
PolledPacketsNewestFirst(rx, loopback, maxPackets) ==
    LET incomingPkts == RxBurstCount(Len(rx))
        loopbackPkts == LoopbackCount(incomingPkts, Len(loopback))
    IN [incomingPkts |-> incomingPkts,
        loopbackPkts |-> loopbackPkts,
        mPkts |-> SubSeq(rx, 1, incomingPkts)
                    \o SubSeq(loopback, Len(loopback) - loopbackPkts + 1,
                              Len(loopback))]

\* mPkts[0 .. totalPkts-1] once both rings have been polled.  maxPackets is
\* clamped to MAX_PACKETS_AT_ONCE and then referred to no more.
PolledPackets(rx, loopback, maxPackets) ==
    LET clamped == IF maxPackets > MAX_PACKETS_AT_ONCE
                   THEN MAX_PACKETS_AT_ONCE ELSE maxPackets
        incomingPkts == RxBurstCount(Len(rx))
        loopbackPkts == LoopbackCount(incomingPkts, Len(loopback))
    IN [incomingPkts |-> incomingPkts,
        loopbackPkts |-> loopbackPkts,
        mPkts |-> SubSeq(rx, 1, incomingPkts) \o SubSeq(loopback, 1, loopbackPkts)]

\* A faulty variant: the address is read from the start of the frame.
SenderAddressDest(cells) == cells[1][2]

\* buffer->dpdkAddress.construct(mtod(m) + sizeof(struct ether_addr)); the
\* bytes are read from the mbuf whether or not the frame reaches that far.
SenderAddress(cells) ==
    IF sizeofEtherAddr + 1 <= Len(cells) THEN cells[sizeofEtherAddr + 1][2]
    ELSE Garbage[2]

\* uint32_t length = rte_pktmbuf_data_len(m) - sizeof32(EthernetHeader)
ReceivedLength(cells) == (Len(cells) - sizeofEthernetHeader) % TwoTo32

\* The length bytes that follow the frame's Ethernet header; what lies past
\* the frame is indeterminate, and past the mbuf's data room it is not the
\* mbuf's memory any more.
FramePayload(cells, length) ==
    [i \in 1..Min(length, MbufDataRoom) |->
        IF sizeofEthernetHeader + i <= Len(cells)
        THEN cells[sizeofEthernetHeader + i] ELSE Garbage]

\* A faulty variant of the round: every PacketBuf shares one address object.
ReceiveOneSharedAddress(d, st, m) ==
    LET c == PoolConstruct(st.pool)
        buffer == c.slot
        length == ReceivedLength(m.cells)
        buf == [dpdkAddress |-> SenderAddress(m.cells),
                payload |-> Memcpy(FreshPayload, 0, FramePayload(m.cells, length))]
    IN [pool |-> c.pool,
        mem |-> [s \in DOMAIN st.mem \cup {buffer} |->
                    IF s = buffer THEN buf
                    ELSE [st.mem[s] EXCEPT !.dpdkAddress = SenderAddress(m.cells)]],
        vec |-> Append(st.vec, [sender |-> buffer, driver |-> d, len |-> length,
                                payload |-> buffer, gid |-> m.gid]),
        used |-> st.used + 1]

\* The round's work on the PacketBuf buffer and on the caller's vector: the
\* sender's address and the frame's payload go into the PacketBuf, and an
\* envelope that refers to both is appended.
FillAndAppend(d, st, buffer, m) ==
    LET old == IF buffer \in DOMAIN st.mem THEN st.mem[buffer].payload
               ELSE FreshPayload
        length == ReceivedLength(m.cells)
        buf == [dpdkAddress |-> SenderAddress(m.cells),
                payload |-> Memcpy(old, 0, FramePayload(m.cells, length))]
    IN [mem |-> [s \in DOMAIN st.mem \cup {buffer} |->
                    IF s = buffer THEN buf ELSE st.mem[s]],
        vec |-> Append(st.vec, [sender |-> buffer, driver |-> d, len |-> length,
                                payload |-> buffer, gid |-> m.gid])]

\* A faulty variant of the round: packetBufsUtilized is not incremented.
ReceiveOneNoCount(d, st, m) ==
    LET c == PoolConstruct(st.pool)
        filled == FillAndAppend(d, st, c.slot, m)
    IN [pool |-> c.pool,
        mem |-> filled.mem,
        vec |-> filled.vec,
        used |-> st.used]

\* One round of the loop over mPkts; st holds the pool, the slots, the
\* caller's vector and packetBufsUtilized.
ReceiveOne(d, st, m) ==
    LET c == PoolConstruct(st.pool)
        filled == FillAndAppend(d, st, c.slot, m)
    IN [pool |-> c.pool,
        mem |-> filled.mem,
        vec |-> filled.vec,
        used |-> st.used + 1]

\* A faulty variant of the loop: a PacketBuf is constructed and counted
\* before the loop looks whether a frame is left.
RECURSIVE ReceiveAllEager(_, _, _)
ReceiveAllEager(d, st, mPkts) ==
    IF mPkts = <<>>
    THEN [st EXCEPT !.pool = PoolConstruct(st.pool).pool, !.used = @ + 1]
    ELSE CHOOSE r \in {ReceiveAllEager(d, next, Tail(mPkts)) :
                          next \in {ReceiveOne(d, st, Head(mPkts))}} : TRUE

\* The loop over mPkts[0 .. totalPkts-1]; next is the state one round
\* leaves, which the following rounds work on.
RECURSIVE ReceiveAll(_, _, _)
ReceiveAll(d, st, mPkts) ==
    IF mPkts = <<>> THEN st
    ELSE CHOOSE r \in {ReceiveAll(d, next, Tail(mPkts)) :
                          next \in {ReceiveOne(d, st, Head(mPkts))}} : TRUE

\* rte_memcpy is told to copy more bytes than the frame has: it reads past
\* the mbuf and writes past the PacketBuf.
CopyOverruns(mPkts) ==
    \E k \in 1..Len(mPkts) : ReceivedLength(mPkts[k].cells) > Len(mPkts[k].cells)

receivePackets(d, maxPackets) ==
    LET polled == PolledPackets(rxRing[d], loopbackRing[d], maxPackets)
        st0 == [pool |-> packetBufPool[d], mem |-> slotMem[d],
                vec |-> receivedPackets[d], used |-> packetBufsUtilized[d]]
        st == ReceiveAll(d, st0, polled.mPkts)
    IN
    /\ Running(d)
    /\ rxRing' = [rxRing EXCEPT ![d] = SubSeq(@, polled.incomingPkts + 1, Len(@))]
    /\ loopbackRing' = [loopbackRing EXCEPT
                          ![d] = SubSeq(@, polled.loopbackPkts + 1, Len(@))]
    \* rte_pktmbuf_free(m) for the frames that came from the loopback ring
    /\ mbufsInUse' = [mbufsInUse EXCEPT ![d] = @ - polled.loopbackPkts]
    /\ packetBufPool' = [packetBufPool EXCEPT ![d] = st.pool]
    /\ slotMem' = [slotMem EXCEPT ![d] = st.mem]
    /\ receivedPackets' = [receivedPackets EXCEPT ![d] = st.vec]
    /\ packetBufsUtilized' = [packetBufsUtilized EXCEPT ![d] = st.used]
    \* a copy that overruns is undefined: the process may die of it
    /\ \E crash \in IF CopyOverruns(polled.mPkts) THEN BOOLEAN ELSE {FALSE} :
          /\ aborted' = [aborted EXCEPT ![d] = crash]
          \* last.n: maxPackets; last.m: the length of the vector before the call
          /\ last' = LastOp("receivePackets", d, IF crash THEN "crash" ELSE "ok",
                            maxPackets, Len(receivedPackets[d]))
    /\ UNCHANGED <<config, aside, now, txRing, queueEstimator, stolen,
                   returned, sentLog, arrivalLog>>

-----------------------------------------------------------------------------
(* DpdkDriver::release *)

\* A faulty variant of release: the PacketBuf is not given back to the pool.
ReleaseEffectLeak(d, payload) ==
    /\ packetBufsUtilized' = [packetBufsUtilized EXCEPT ![d] = @ - 1]
    /\ UNCHANGED <<aborted, packetBufPool, slotMem>>

\* A faulty variant of release: the counter is left alone.
ReleaseEffectNoCount(d, payload) ==
    /\ packetBufPool' = [packetBufPool EXCEPT ![d] = PoolDestroy(@, payload)]
    /\ slotMem' = [slotMem EXCEPT ![d][payload] = DestroyedPacketBuf]
    /\ UNCHANGED <<aborted, packetBufsUtilized>>

\* A faulty variant of release: the PacketBuf is not given back to the pool.
ReleasedLeak(st, payload) == [st EXCEPT !.used = @ - 1]

\* release(payload) on the fields st of a driver: the counter goes down by
\* one; the assertion stops the process if it went below zero; otherwise the
\* PacketBuf goes back to the pool, which destroys its dpdkAddress.
Released(st, payload) ==
    LET used == st.used - 1
        fails == used < 0 /\ ~ndebug
    IN [used |-> used,
        aborted |-> fails,
        pool |-> IF fails THEN st.pool ELSE PoolDestroy(st.pool, payload),
        mem |-> IF fails THEN st.mem
                ELSE [st.mem EXCEPT ![payload] = DestroyedPacketBuf]]

\* The fields of d that release works on.
ReleaseFields(d) ==
    [used |-> packetBufsUtilized[d], aborted |-> aborted[d],
     pool |-> packetBufPool[d], mem |-> slotMem[d]]

\* The driver's state after release(payload).
ReleaseEffect(d, payload) ==
    LET st == Released(ReleaseFields(d), payload)
    IN
    /\ packetBufsUtilized' = [packetBufsUtilized EXCEPT ![d] = st.used]
    /\ aborted' = [aborted EXCEPT ![d] = st.aborted]
    /\ packetBufPool' = [packetBufPool EXCEPT ![d] = st.pool]
    /\ slotMem' = [slotMem EXCEPT ![d] = st.mem]

ReleaseOutcome(d) ==
    IF packetBufsUtilized[d] - 1 < 0 /\ ~ndebug THEN "assert" ELSE "ok"

\* The payload is lent to the caller's Buffer as a PayloadChunk.
InBuffer(d, payload) ==
    \E k \in 1..Len(payloadChunks[d]) : payloadChunks[d][k] = payload

\* A caller returns a payload it stole.
release(d, payload) ==
    /\ Running(d)
    /\ payload \in stolen[d]
    /\ ~InBuffer(d, payload)
    /\ ReleaseEffect(d, payload)
    /\ stolen' = [stolen EXCEPT ![d] = @ \ {payload}]
    /\ returned' = [returned EXCEPT ![d] = @ \cup {payload}]
    /\ last' = LastOp("release", d, ReleaseOutcome(d), payload, 0)
    /\ UNCHANGED <<config, aside, now, rxRing, txRing, loopbackRing, mbufsInUse,
                   queueEstimator, receivedPackets, sentLog, arrivalLog>>

\* Misuse: a caller calls release again for a payload it stole earlier and
\* has already returned.
releaseAgain(d, payload) ==
    /\ Running(d)
    /\ payload \in returned[d] \ stolen[d]
    /\ ReleaseEffect(d, payload)
    /\ returned' = [returned EXCEPT ![d] = @ \ {payload}]
    /\ last' = LastOp("releaseAgain", d, ReleaseOutcome(d), payload, 0)
    /\ UNCHANGED <<config, aside, now, rxRing, txRing, loopbackRing, mbufsInUse,
                   queueEstimator, receivedPackets, stolen, sentLog, arrivalLog>>

-----------------------------------------------------------------------------
(* Driver::Received *)

\* A faulty variant of steal: the envelope keeps its payload.
StolenKept(e) == e

\* The envelope after steal: it owns no payload any more.
Stolen(e) == [e EXCEPT !.payload = NULL]

\* steal(&len) on the i-th envelope of the caller's vector: the caller gets
\* the payload and the envelope gives it up.
steal(d, i) ==
    LET e == receivedPackets[d][i]
    IN
    /\ Running(d)
    /\ i \in 1..Len(receivedPackets[d])
    /\ receivedPackets' = [receivedPackets EXCEPT ![d][i] = Stolen(e)]
    /\ IF e.payload # NULL
       THEN stolen' = [stolen EXCEPT ![d] = @ \cup {e.payload}]
       ELSE UNCHANGED stolen
    \* last.n: the payload returned; last.m: the envelope's index; last.len:
    \* the length stored through the len argument
    /\ last' = [op |-> "steal", driver |-> d, outcome |-> "ok", n |-> e.payload,
                m |-> i, len |-> e.len]
    /\ UNCHANGED <<config, aside, aborted, now, rxRing, txRing, loopbackRing, mbufsInUse,
                   packetBufPool, slotMem, packetBufsUtilized, queueEstimator,
                   returned, sentLog, arrivalLog>>

\* The driver field of an envelope that belongs to no driver.
NullDriver == "NULL"

\* A faulty variant of the move constructor: other is left as it was.
MovedFromIntact(other) == other

\* What Received(Received&& other) leaves in other; gid, the history of the
\* frame, is no field of the class.
MovedFrom(other) ==
    [other EXCEPT !.sender = NULL, !.driver = NullDriver, !.len = 0,
                  !.payload = NULL]

\* What Received(Received&& other) constructs.
MovedTo(other) ==
    [sender |-> other.sender, driver |-> other.driver, len |-> other.len,
     payload |-> other.payload, gid |-> other.gid]

\* An envelope is move-constructed from envelope i of the caller's.  The
\* vector lists the caller's envelopes, the one to be destroyed next last:
\* either the new envelope outlives the other (the vector grows into new
\* storage and the old elements are destroyed) or the other outlives the new
\* one (a temporary made with std::move).
moveReceived(d, i, newOutlives) ==
    LET other == receivedPackets[d][i]
    IN
    /\ Running(d)
    /\ i \in 1..Len(receivedPackets[d])
    /\ receivedPackets' =
           [receivedPackets EXCEPT
               ![d] = IF newOutlives
                      THEN Append([@ EXCEPT ![i] = MovedTo(other)], MovedFrom(other))
                      ELSE Append([@ EXCEPT ![i] = MovedFrom(other)], MovedTo(other))]
    \* last.n: the payload that moved; last.m: the index of other
    /\ last' = LastOp("moveReceived", d, IF newOutlives THEN "newOutlives" ELSE "otherOutlives",
                      other.payload, i)
    /\ UNCHANGED <<config, aside, aborted, now, rxRing, txRing, loopbackRing, mbufsInUse,
                   packetBufPool, slotMem, packetBufsUtilized, queueEstimator,
                   stolen, returned, sentLog, arrivalLog>>

\* ~Received() of the last envelope of the caller's vector (pop_back): a
\* payload the envelope still owns goes back to its driver.
destroyReceived(d) ==
    LET n == Len(receivedPackets[d])
        e == receivedPackets[d][n]
    IN
    /\ Running(d)
    /\ n > 0
    /\ receivedPackets' = [receivedPackets EXCEPT ![d] = SubSeq(@, 1, n - 1)]
    /\ IF e.payload # NULL
       THEN /\ ReleaseEffect(d, e.payload)
            /\ last' = LastOp("destroyReceived", d, ReleaseOutcome(d), e.payload, 0)
       ELSE /\ UNCHANGED <<packetBufPool, slotMem, packetBufsUtilized, aborted>>
            /\ last' = LastOp("destroyReceived", d, "nothing", NULL, 0)
    /\ UNCHANGED <<config, aside, now, rxRing, txRing, loopbackRing, mbufsInUse,
                   queueEstimator, stolen, returned, sentLog, arrivalLog>>

-----------------------------------------------------------------------------
(* receivePackets in the polling context, release in a worker *)

\* Nobody holds the dispatch lock; no call is under way.
IdlePoll == [pc |-> "idle", mPkts |-> <<>>, nic |-> 0, buffer |-> NULL, tmp |-> 0]
IdleWork == [pc |-> "idle", payload |-> NULL, tmp |-> 0]
IdleCtx == [lock |-> "free", poll |-> IdlePoll, work |-> IdleWork]

\* The polling context of d is between two calls and is not held up by the
\* dispatch lock.
PollerFree(d) == ctx[d].poll.pc = "idle" /\ ctx[d].lock = "free"

\* Dispatch::Lock, taken by a thread other than the polling context: it is
\* granted when the polling context is between two calls, which then waits
\* until the lock is given back.
DispatchLockGranted(d) == ctx[d].poll.pc = "idle" /\ ctx[d].lock = "free"

\* A faulty variant of release: it does not wait for the dispatch lock.
ReleaseSyncNone(d) == TRUE

\* Dispatch::Lock _(context->dispatch) at the start of release.
ReleaseSync(d) == DispatchLockGranted(d)

\* receivePackets up to the loop over mPkts: both rings are polled.
pollStart(d, maxPackets) ==
    LET polled == PolledPackets(rxRing[d], loopbackRing[d], maxPackets)
    IN
    /\ Running(d)
    /\ PollerFree(d)
    /\ rxRing' = [rxRing EXCEPT ![d] = SubSeq(@, polled.incomingPkts + 1, Len(@))]
    /\ loopbackRing' = [loopbackRing EXCEPT
                          ![d] = SubSeq(@, polled.loopbackPkts + 1, Len(@))]
    /\ ctx' = [ctx EXCEPT ![d].poll =
                  IF polled.mPkts = <<>> THEN IdlePoll
                  ELSE [pc |-> "construct", mPkts |-> polled.mPkts,
                        nic |-> polled.incomingPkts, buffer |-> NULL, tmp |-> 0]]
    /\ last' = LastOp("pollStart", d, "ok", maxPackets, Len(receivedPackets[d]))
    /\ UNCHANGED <<config, payloadChunks, aborted, now, txRing, mbufsInUse,
                   packetBufPool, slotMem, packetBufsUtilized, queueEstimator,
                   receivedPackets, stolen, returned, sentLog, arrivalLog>>

\* PacketBuf* buffer = packetBufPool.construct()
pollConstruct(d) ==
    LET c == PoolConstruct(packetBufPool[d])
    IN
    /\ Running(d)
    /\ ctx[d].poll.pc = "construct"
    /\ packetBufPool' = [packetBufPool EXCEPT ![d] = c.pool]
    /\ ctx' = [ctx EXCEPT ![d].poll.buffer = c.slot, ![d].poll.pc = "load"]
    /\ last' = LastOp("pollConstruct", d, "ok", c.slot, 0)
    /\ UNCHANGED <<config, payloadChunks, aborted, now, rxRing, txRing,
                   loopbackRing, mbufsInUse, slotMem, packetBufsUtilized,
                   queueEstimator, receivedPackets, stolen, returned, sentLog,
                   arrivalLog>>

\* packetBufsUtilized++, the read
pollLoad(d) ==
    /\ Running(d)
    /\ ctx[d].poll.pc = "load"
    /\ ctx' = [ctx EXCEPT ![d].poll.tmp = packetBufsUtilized[d],
                          ![d].poll.pc = "store"]
    /\ last' = LastOp("pollLoad", d, "ok", packetBufsUtilized[d], 0)
    /\ UNCHANGED <<config, payloadChunks, aborted, now, rxRing, txRing,
                   loopbackRing, mbufsInUse, packetBufPool, slotMem,
                   packetBufsUtilized, queueEstimator, receivedPackets, stolen,
                   returned, sentLog, arrivalLog>>

\* packetBufsUtilized++, the write
pollStore(d) ==
    /\ Running(d)
    /\ ctx[d].poll.pc = "store"
    /\ packetBufsUtilized' = [packetBufsUtilized EXCEPT ![d] = ctx[d].poll.tmp + 1]
    /\ ctx' = [ctx EXCEPT ![d].poll.pc = "fill"]
    /\ last' = LastOp("pollStore", d, "ok", ctx[d].poll.tmp + 1, 0)
    /\ UNCHANGED <<config, payloadChunks, aborted, now, rxRing, txRing,
                   loopbackRing, mbufsInUse, packetBufPool, slotMem,
                   queueEstimator, receivedPackets, stolen, returned, sentLog,
                   arrivalLog>>

\* The rest of the round: the address and the payload are written into the
\* PacketBuf, the envelope is appended and the mbuf is freed.
pollFill(d) ==
    LET poll == ctx[d].poll
        m == Head(poll.mPkts)
        st == FillAndAppend(d, [mem |-> slotMem[d], vec |-> receivedPackets[d]],
                            poll.buffer, m)
        rest == Tail(poll.mPkts)
    IN
    /\ Running(d)
    /\ poll.pc = "fill"
    /\ slotMem' = [slotMem EXCEPT ![d] = st.mem]
    /\ receivedPackets' = [receivedPackets EXCEPT ![d] = st.vec]
    \* rte_pktmbuf_free(m) for a frame that came from the loopback ring
    /\ mbufsInUse' = [mbufsInUse EXCEPT ![d] = IF poll.nic > 0 THEN @ ELSE @ - 1]
    /\ ctx' = [ctx EXCEPT ![d].poll =
                  IF rest = <<>> THEN IdlePoll
                  ELSE [pc |-> "construct", mPkts |-> rest,
                        nic |-> IF poll.nic > 0 THEN poll.nic - 1 ELSE 0,
                        buffer |-> NULL, tmp |-> 0]]
    /\ last' = LastOp("pollFill", d, "ok", poll.buffer, m.gid)
    /\ UNCHANGED <<config, payloadChunks, aborted, now, rxRing, txRing,
                   loopbackRing, packetBufPool, packetBufsUtilized,
                   queueEstimator, stolen, returned, sentLog, arrivalLog>>

\* A worker calls release(payload) and takes the dispatch lock.
workerRelease(d, payload) ==
    /\ Running(d)
    /\ payload \in stolen[d]
    /\ ~InBuffer(d, payload)
    /\ ctx[d].work.pc = "idle"
    /\ ReleaseSync(d)
    /\ ctx' = [ctx EXCEPT ![d].lock = "worker",
                          ![d].work = [pc |-> "load", payload |-> payload, tmp |-> 0]]
    /\ last' = LastOp("workerRelease", d, "ok", payload, 0)
    /\ UNCHANGED <<config, payloadChunks, aborted, now, rxRing, txRing,
                   loopbackRing, mbufsInUse, packetBufPool, slotMem,
                   packetBufsUtilized, queueEstimator, receivedPackets, stolen,
                   returned, sentLog, arrivalLog>>

\* packetBufsUtilized--, the read
workerLoad(d) ==
    /\ Running(d)
    /\ ctx[d].work.pc = "load"
    /\ ctx' = [ctx EXCEPT ![d].work.tmp = packetBufsUtilized[d],
                          ![d].work.pc = "store"]
    /\ last' = LastOp("workerLoad", d, "ok", packetBufsUtilized[d], 0)
    /\ UNCHANGED <<config, payloadChunks, aborted, now, rxRing, txRing,
                   loopbackRing, mbufsInUse, packetBufPool, slotMem,
                   packetBufsUtilized, queueEstimator, receivedPackets, stolen,
                   returned, sentLog, arrivalLog>>

\* packetBufsUtilized--, the write, and assert(packetBufsUtilized >= 0)
workerStore(d) ==
    LET used == ctx[d].work.tmp - 1
        fails == used < 0 /\ ~ndebug
    IN
    /\ Running(d)
    /\ ctx[d].work.pc = "store"
    /\ packetBufsUtilized' = [packetBufsUtilized EXCEPT ![d] = used]
    /\ aborted' = [aborted EXCEPT ![d] = fails]
    /\ ctx' = [ctx EXCEPT ![d].work.pc = "destroy"]
    /\ last' = LastOp("workerStore", d, IF fails THEN "assert" ELSE "ok", used, 0)
    /\ UNCHANGED <<config, payloadChunks, now, rxRing, txRing, loopbackRing,
                   mbufsInUse, packetBufPool, slotMem, queueEstimator,
                   receivedPackets, stolen, returned, sentLog, arrivalLog>>

\* packetBufPool.destroy(buffer); the lock is given back on return.
workerDestroy(d) ==
    LET payload == ctx[d].work.payload
    IN
    /\ Running(d)
    /\ ctx[d].work.pc = "destroy"
    /\ packetBufPool' = [packetBufPool EXCEPT ![d] = PoolDestroy(@, payload)]
    /\ slotMem' = [slotMem EXCEPT ![d][payload] = DestroyedPacketBuf]
    /\ stolen' = [stolen EXCEPT ![d] = @ \ {payload}]
    /\ returned' = [returned EXCEPT ![d] = @ \cup {payload}]
    /\ ctx' = [ctx EXCEPT ![d].lock = "free", ![d].work = IdleWork]
    /\ last' = LastOp("workerDestroy", d, "ok", payload, 0)
    /\ UNCHANGED <<config, payloadChunks, aborted, now, rxRing, txRing,
                   loopbackRing, mbufsInUse, packetBufsUtilized, queueEstimator,
                   receivedPackets, sentLog, arrivalLog>>

-----------------------------------------------------------------------------
(* Driver::PayloadChunk *)

\* PayloadChunk::prependToBuffer and PayloadChunk::appendToBuffer: the Buffer
\* gets a chunk that refers to the stolen payload.
appendToBuffer(d, payload, prepend) ==
    /\ Running(d)
    /\ payload \in stolen[d]
    /\ ~InBuffer(d, payload)
    /\ payloadChunks' = [payloadChunks EXCEPT
                           ![d] = IF prepend THEN <<payload>> \o @ ELSE Append(@, payload)]
    /\ last' = LastOp(IF prepend THEN "prependToBuffer" ELSE "appendToBuffer",
                      d, "ok", payload, 0)
    /\ UNCHANGED <<config, ctx, aborted, now, rxRing, txRing, loopbackRing,
                   mbufsInUse, packetBufPool, slotMem, packetBufsUtilized,
                   queueEstimator, receivedPackets, stolen, returned, sentLog,
                   arrivalLog>>

\* The destructors of the chunks of a Buffer, first to last: each
\* ~PayloadChunk calls driver->release(payload), unless the process has died.
RECURSIVE DestroyChunks(_, _)
DestroyChunks(st, chunks) ==
    IF chunks = <<>> \/ st.aborted THEN st
    ELSE DestroyChunks(Released(st, Head(chunks)), Tail(chunks))

\* The caller's Buffer is destroyed or reset.
bufferReset(d) ==
    LET chunks == payloadChunks[d]
        st == DestroyChunks(ReleaseFields(d), chunks)
        gone == {chunks[k] : k \in 1..Len(chunks)}
    IN
    /\ Running(d)
    /\ chunks # <<>>
    /\ payloadChunks' = [payloadChunks EXCEPT ![d] = <<>>]
    /\ packetBufsUtilized' = [packetBufsUtilized EXCEPT ![d] = st.used]
    /\ aborted' = [aborted EXCEPT ![d] = st.aborted]
    /\ packetBufPool' = [packetBufPool EXCEPT ![d] = st.pool]
    /\ slotMem' = [slotMem EXCEPT ![d] = st.mem]
    /\ stolen' = [stolen EXCEPT ![d] = @ \ gone]
    /\ returned' = [returned EXCEPT ![d] = @ \cup gone]
    \* last.n: the number of chunks destroyed
    /\ last' = LastOp("bufferReset", d, IF st.aborted THEN "assert" ELSE "ok",
                      Len(chunks), 0)
    /\ UNCHANGED <<config, ctx, now, rxRing, txRing, loopbackRing, mbufsInUse,
                   queueEstimator, receivedPackets, sentLog, arrivalLog>>

-----------------------------------------------------------------------------
(* The environment *)

\* The NIC of d transmits the frame at the head of its transmit ring and
\* frees the mbuf.  The NIC of the addressed port stores the frame in its
\* receive ring if it has a free descriptor and the frame is no longer than
\* max_rx_pkt_len; otherwise the frame is lost.
MaxRxPktLen == MAX_PAYLOAD_SIZE + sizeofEthernetHeader

wire(d) ==
    LET m == Head(txRing[d])
        dest == m.cells[1][2]
        to == PortOf(dest)
        stored == /\ Len(rxRing[to]) < RxRingCapacity
                  /\ Len(m.cells) <= MaxRxPktLen
    IN
    /\ txRing[d] # <<>>
    /\ txRing' = [txRing EXCEPT ![d] = Tail(@)]
    /\ mbufsInUse' = [mbufsInUse EXCEPT ![d] = @ - 1]
    /\ IF stored
       THEN /\ rxRing' = [rxRing EXCEPT ![to] = Append(@, m)]
            /\ arrivalLog' = [arrivalLog EXCEPT ![to] = Append(@, m.gid)]
       ELSE UNCHANGED <<rxRing, arrivalLog>>
    /\ last' = LastOp("wire", d, IF stored THEN "stored" ELSE "lost", m.gid, dest)
    /\ UNCHANGED <<config, aside, aborted, now, loopbackRing, packetBufPool, slotMem,
                   packetBufsUtilized, queueEstimator, receivedPackets, stolen,
                   returned, sentLog>>

\* A station that is no DpdkDriver: its address, and the frame of n cells it
\* sends to d.  The NIC stores any frame that fits max_rx_pkt_len, however
\* short; the frame has no entry in sentLog (gid 0).
ForeignMac == 3

stray(d, n) ==
    LET whole == <<MacCell(localMac(d)), MacCell(ForeignMac), FAST, <<"h", 1, 0>>>>
        m == [cells |-> SubSeq(whole, 1, n), gid |-> 0]
    IN
    /\ Running(d)
    /\ n <= MaxRxPktLen
    /\ Len(rxRing[d]) < RxRingCapacity
    /\ rxRing' = [rxRing EXCEPT ![d] = Append(@, m)]
    /\ arrivalLog' = [arrivalLog EXCEPT ![d] = Append(@, 0)]
    /\ last' = LastOp("stray", d, "stored", n, ForeignMac)
    /\ UNCHANGED <<config, aside, aborted, now, txRing, loopbackRing, mbufsInUse,
                   packetBufPool, slotMem, packetBufsUtilized, queueEstimator,
                   receivedPackets, stolen, returned, sentLog>>

-----------------------------------------------------------------------------
(* Specifications *)

MaxPacketsArgs == {1, MAX_PACKETS_AT_ONCE + 1}

\* The fields as the constructor's initialiser list leaves them, empty rings
\* and a caller that holds nothing.
Fresh ==
    /\ aborted = [d \in Drivers |-> FALSE]
    /\ now = 0
    /\ rxRing = [d \in Drivers |-> <<>>]
    /\ txRing = [d \in Drivers |-> <<>>]
    /\ loopbackRing = [d \in Drivers |-> <<>>]
    /\ mbufsInUse = [d \in Drivers |-> 0]
    /\ packetBufPool = [d \in Drivers |-> [free |-> <<>>, created |-> 0]]
    /\ slotMem = [d \in Drivers |-> <<>>]
    /\ packetBufsUtilized = [d \in Drivers |-> 0]
    /\ queueEstimator = [d \in Drivers |-> [currentTime |-> 0, queueSize |-> 0]]
    /\ receivedPackets = [d \in Drivers |-> <<>>]
    /\ stolen = [d \in Drivers |-> {}]
    /\ returned = [d \in Drivers |-> {}]
    /\ payloadChunks = [d \in Drivers |-> <<>>]
    /\ ctx = [d \in Drivers |-> IdleCtx]
    /\ sentLog = <<>>
    /\ arrivalLog = [d \in Drivers |-> <<>>]

\* Both drivers were constructed without a locator on a healthy fabric.
Init ==
    /\ ndebug \in BOOLEAN
    /\ Fresh
    /\ built = [d \in Drivers |-> Construct(NoLocator, Healthy).outcome]
    /\ bandwidthGbps = [d \in Drivers |-> Construct(NoLocator, Healthy).bandwidthGbps]
    /\ maxTransmitQueueSize =
           [d \in Drivers |-> Construct(NoLocator, Healthy).maxTransmitQueueSize]
    /\ localServiceLocator = [d \in Drivers |-> NoLocator]
    /\ locatorString = [d \in Drivers |-> LocatorString(d, NoLocator)]
    /\ last = LastOp("init", "A", "ok", 0, 0)

\* The bandwidths a locator's gbs option names.
GbsArgs == {0, 1, TestGbps}

\* Driver A was constructed with a locator that may name a bandwidth, driver
\* B without a locator.
InitThrottle ==
    \E gbs \in {Absent} \cup {IntOption(g) : g \in GbsArgs} :
        LET a == Construct(Locator(Absent, gbs), Healthy)
            b == Construct(NoLocator, Healthy)
        IN /\ ndebug \in BOOLEAN
           /\ Fresh
           /\ built = [d \in Drivers |-> IF d = "A" THEN a.outcome ELSE b.outcome]
           /\ bandwidthGbps =
                  [d \in Drivers |-> IF d = "A" THEN a.bandwidthGbps ELSE b.bandwidthGbps]
           /\ maxTransmitQueueSize =
                  [d \in Drivers |-> IF d = "A" THEN a.maxTransmitQueueSize
                                     ELSE b.maxTransmitQueueSize]
           /\ localServiceLocator =
                  [d \in Drivers |-> IF d = "A" THEN Locator(Absent, gbs)
                                     ELSE NoLocator]
           /\ locatorString =
                  [d \in Drivers |-> LocatorString(d, localServiceLocator[d])]
           /\ last = LastOp("init", "A", "ok", 0, 0)

\* A transport sends packets of one header byte and a one-chunk payload.
SendStep ==
    \E d \in Drivers, recipient \in Macs, allocOk \in BOOLEAN :
        /\ Len(sentLog) < MaxSends
        /\ sendPacket(d, recipient, 1, [null |-> FALSE, lens |-> <<1>>], allocOk)

\* A caller sends any header and any payload, whatever their size.
SendAnyStep ==
    \E d \in Drivers, recipient \in Macs, headerLen \in 0..MaxHeaderLen,
       payload \in PayloadArgs, allocOk \in BOOLEAN :
        /\ Len(sentLog) < MaxWideSends
        /\ sendPacket(d, recipient, headerLen, payload, allocOk)

ReceiveStep == \E d \in Drivers, maxPackets \in MaxPacketsArgs : receivePackets(d, maxPackets)

StealStep == \E d \in Drivers : \E i \in 1..Len(receivedPackets[d]) : steal(d, i)

DestroyStep == \E d \in Drivers : destroyReceived(d)

ReleaseStep == \E d \in Drivers : \E payload \in stolen[d] : release(d, payload)

ReleaseAgainStep ==
    \E d \in Drivers : \E payload \in returned[d] : releaseAgain(d, payload)

WireStep == \E d \in Drivers : wire(d)

Next ==
    \/ SendStep
    \/ ReceiveStep
    \/ StealStep
    \/ DestroyStep
    \/ ReleaseStep
    \/ WireStep

\* No driver has been constructed yet.
InitUnbuilt ==
    /\ ndebug \in BOOLEAN
    /\ Fresh
    /\ built = [d \in Drivers |-> "unbuilt"]
    /\ bandwidthGbps = [d \in Drivers |-> DefaultGbps]
    /\ maxTransmitQueueSize = [d \in Drivers |-> 0]
    /\ localServiceLocator = [d \in Drivers |-> NoLocator]
    /\ locatorString = [d \in Drivers |-> NoString]
    /\ last = LastOp("init", "A", "ok", 0, 0)

\* The locators and the fabrics a driver may be constructed with.
OptionArgs(values) == {Absent, Malformed} \cup {IntOption(v) : v \in values}

LocatorArgs ==
    {NoLocator} \cup
    {Locator(devport, gbs) : devport \in OptionArgs({0, 1}), gbs \in OptionArgs(GbsArgs)}

FabricArgs ==
    [poolOk : BOOLEAN, numPorts : {0, 1}, linkUp : BOOLEAN, mtuOk : BOOLEAN,
     ringOk : BOOLEAN]

ConstructStep ==
    \E d \in Drivers, locator \in LocatorArgs, env \in FabricArgs :
        construct(d, locator, env)

NewAddressStep == \E d \in Drivers, mac \in OptionArgs(Macs) : newAddress(d, mac)

\* The steps of a polling context that runs receivePackets line by line and
\* of a worker that runs release line by line.
PollStep ==
    \E d \in Drivers :
        \/ \E maxPackets \in MaxPacketsArgs : pollStart(d, maxPackets)
        \/ pollConstruct(d)
        \/ pollLoad(d)
        \/ pollStore(d)
        \/ pollFill(d)

WorkerStep ==
    \E d \in Drivers :
        \/ \E payload \in stolen[d] : workerRelease(d, payload)
        \/ workerLoad(d)
        \/ workerStore(d)
        \/ workerDestroy(d)

\* What the polling context does between two receivePackets calls.
PollerSendStep ==
    \E d \in Drivers, recipient \in Macs, allocOk \in BOOLEAN :
        /\ PollerFree(d)
        /\ Len(sentLog) < MaxSends
        /\ sendPacket(d, recipient, 1, [null |-> FALSE, lens |-> <<1>>], allocOk)

PollerStealStep ==
    \E d \in Drivers : \E i \in 1..Len(receivedPackets[d]) :
        PollerFree(d) /\ steal(d, i)

PollerDestroyStep == \E d \in Drivers : PollerFree(d) /\ destroyReceived(d)

AppendStep ==
    \E d \in Drivers, prepend \in BOOLEAN :
        \E payload \in stolen[d] : appendToBuffer(d, payload, prepend)

BufferResetStep == \E d \in Drivers : bufferReset(d)

\* The clock Cycles::rdtsc() reads moves on.
tick ==
    /\ now < MaxTime
    /\ now' = now + 1
    /\ last' = LastOp("tick", "A", "ok", now + 1, 0)
    /\ UNCHANGED <<config, aside, aborted, rxRing, txRing, loopbackRing, mbufsInUse,
                   packetBufPool, slotMem, packetBufsUtilized, queueEstimator,
                   receivedPackets, stolen, returned, sentLog, arrivalLog>>

\* A transport sends packets of the largest size the driver announces.
SendFullStep ==
    \E d \in Drivers, recipient \in Macs :
        /\ Len(sentLog) < MaxThrottleSends
        /\ sendPacket(d, recipient, getMaxPacketSize, NoPayload, TRUE)

\* A transport asks for the transmit queue space at the time it reads from the
\* clock.
QueryStep == \E d \in Drivers : getTransmitQueueSpace(d, now)

\* Callers keep the contract: release is called once for a stolen payload.
Spec == Init /\ [][Next]_vars

\* Callers may also call release a second time.
NextMisuse == Next \/ ReleaseAgainStep

SpecMisuse == Init /\ [][NextMisuse]_vars

\* The transit of single packets of every size, header and payload.
NextTransit ==
    \/ SendAnyStep
    \/ ReceiveStep
    \/ StealStep
    \/ DestroyStep
    \/ ReleaseStep
    \/ WireStep

SpecTransit == Init /\ [][NextTransit]_vars

\* Transports that send, watch the clock and ask for the queue space.
NextThrottle ==
    \/ SendFullStep
    \/ QueryStep
    \/ tick

SpecThrottle == InitThrottle /\ [][NextThrottle]_vars

\* Transports lend stolen payloads to a Buffer, which gives them back when it
\* is destroyed or reset.
NextSplice ==
    \/ Next
    \/ AppendStep
    \/ BufferResetStep

SpecSplice == Init /\ [][NextSplice]_vars

\* A polling context and a worker run side by side.
NextConcurrent ==
    \/ PollStep
    \/ WorkerStep
    \/ PollerSendStep
    \/ PollerStealStep
    \/ PollerDestroyStep
    \/ WireStep

SpecConcurrent == Init /\ [][NextConcurrent]_vars

\* Drivers are constructed from locators, and the ones that are ready make
\* addresses from locators and send to them.
NextConstruct ==
    \/ ConstructStep
    \/ NewAddressStep
    \/ SendStep
    \/ WireStep

SpecConstruct == InitUnbuilt /\ [][NextConstruct]_vars

-----------------------------------------------------------------------------
(* Vocabulary of the properties *)

\* The bytes a sendPacket was given, header first, then the payload chunks in
\* iterator order.
ExpectedBytes(sent) ==
    HeaderBytes(sent.headerLen) \o
        (IF sent.null THEN <<>> ELSE Flatten(BufferChunks(sent.lens)))

SentSize(sent) == sent.headerLen + SumLens(sent.lens)

\* What a caller reads through an envelope: len bytes starting at payload.
EnvelopeBytes(d, e) == SubSeq(slotMem[d][e.payload].payload, 1, e.len)

Envelopes(d) == {receivedPackets[d][i] : i \in 1..Len(receivedPackets[d])}

CountIn(seq, x) == Cardinality({i \in 1..Len(seq) : seq[i] = x})

\* The owners of slot s of driver d: entries of the pool's free list,
\* envelopes whose payload is s, and the caller if it holds s as stolen.
Owners(d, s) ==
    CountIn(packetBufPool[d].free, s)
    + Cardinality({i \in 1..Len(receivedPackets[d]) : receivedPackets[d][i].payload = s})
    + (IF s \in stolen[d] THEN 1 ELSE 0)

Slots(d) == 1..packetBufPool[d].created

\* The slots of d that are handed out: held by an envelope or by the caller.
OutstandingSlots(d) ==
    {s \in Slots(d) : s \in stolen[d] \/ \E e \in Envelopes(d) : e.payload = s}

\* The position of frame gid in an arrival log.
ArrivalPos(log, gid) == CHOOSE k \in 1..Len(log) : log[k] = gid

-----------------------------------------------------------------------------
(* C1 *)

\* C1: a packet whose header and payload fit getMaxPacketSize, sent to the
\* address of a driver, is received by that driver as one envelope whose len
\* is headerLen + payload size and whose bytes are the header bytes followed
\* by the payload chunks in iterator order, without the Ethernet header.
C1_HeaderThenPayload ==
    \A d \in Drivers :
        \A i \in 1..Len(receivedPackets[d]) :
            LET e == receivedPackets[d][i]
                sent == sentLog[e.gid]
            IN (e.payload # NULL /\ SentSize(sent) <= getMaxPacketSize) =>
                  /\ sent.to = localMac(d)
                  /\ e.len = SentSize(sent)
                  /\ EnvelopeBytes(d, e) = ExpectedBytes(sent)
                  /\ \A j \in 1..Len(receivedPackets[d]) :
                        receivedPackets[d][j].gid = e.gid => j = i

\* B holds the envelope of a packet A sent with a header byte and a
\* two-chunk payload.
C1_Witness ==
    \E e \in Envelopes("B") :
        /\ e.payload # NULL
        /\ sentLog[e.gid].from = "A"
        /\ sentLog[e.gid].headerLen = 1
        /\ sentLog[e.gid].lens = <<1, 1>>
        /\ e.len = 3

-----------------------------------------------------------------------------
(* C2 *)

\* C2: in a build with assertions, packetBufsUtilized never goes below zero
\* while the driver runs, and a release of a payload that was already
\* released stops on the underflow assertion.
C2_SecondReleaseDetected ==
    ~ndebug =>
        /\ \A d \in Drivers : packetBufsUtilized[d] >= 0 \/ aborted[d]
        /\ last.op = "releaseAgain" => last.outcome = "assert"

-----------------------------------------------------------------------------
(* C3 *)

\* C3: every slot of every pool has exactly one owner: the pool's free list,
\* one envelope, or the caller that stole it.
C3_OneOwner == \A d \in Drivers : \A s \in Slots(d) : Owners(d, s) = 1

\* A driver with one slot back in the pool and another one stolen, both
\* having been handed out in envelopes.
C3_Witness ==
    \E d \in Drivers : \E s1, s2 \in Slots(d) :
        /\ s1 # s2
        /\ s1 \in stolen[d]
        /\ CountIn(packetBufPool[d].free, s2) = 1

-----------------------------------------------------------------------------
(* C4 *)

\* C4: destroying an envelope whose payload is not NULL gives that payload
\* back to the driver once (the counter drops by one, the slot joins the free
\* list once); steal leaves the envelope's payload NULL and hands the slot to
\* the caller; destroying a stolen envelope releases nothing, and a stolen
\* slot is not in the pool until release is called for it.
C4_DestroyReleasesUnlessStolen ==
    /\ [][\A d \in Drivers :
            Len(receivedPackets'[d]) < Len(receivedPackets[d]) =>
                LET e == receivedPackets[d][Len(receivedPackets[d])]
                IN IF e.payload # NULL
                   THEN /\ packetBufsUtilized'[d] = packetBufsUtilized[d] - 1
                        /\ packetBufPool'[d].free =
                               Append(packetBufPool[d].free, e.payload)
                        /\ CountIn(packetBufPool'[d].free, e.payload) = 1
                   ELSE /\ packetBufsUtilized'[d] = packetBufsUtilized[d]
                        /\ packetBufPool'[d] = packetBufPool[d]
                        /\ slotMem'[d] = slotMem[d]]_vars
    /\ [][\A d \in Drivers : \A i \in 1..Len(receivedPackets[d]) :
            (/\ Len(receivedPackets'[d]) = Len(receivedPackets[d])
             /\ receivedPackets'[d][i] # receivedPackets[d][i]) =>
                /\ receivedPackets'[d][i].payload = NULL
                /\ receivedPackets[d][i].payload \in stolen'[d]
                /\ packetBufPool'[d] = packetBufPool[d]
                /\ packetBufsUtilized'[d] = packetBufsUtilized[d]]_vars
    /\ [](\A d \in Drivers : \A s \in stolen[d] :
            CountIn(packetBufPool[d].free, s) = 0)

\* An envelope was stolen from and then destroyed; its slot is still with the
\* caller and counted as in use.
C4_Witness ==
    /\ last.op = "destroyReceived"
    /\ last.outcome = "nothing"
    /\ stolen[last.driver] # {}
    /\ packetBufsUtilized[last.driver] = Cardinality(stolen[last.driver])

-----------------------------------------------------------------------------
(* C5 *)

\* C5: a call receivePackets(maxPackets, out) appends at most maxPackets
\* envelopes to out.
C5_AtMostMaxPackets ==
    last.op = "receivePackets" =>
        Len(receivedPackets[last.driver]) - last.m <= last.n

-----------------------------------------------------------------------------
(* C6 *)

\* C6: the envelopes one receivePackets call appends are in the order in
\* which their packets arrived at the driver, and the envelopes that were in
\* the vector before the call keep their positions.
C6_ArrivalOrder ==
    [][last'.op = "receivePackets" =>
          LET d == last'.driver
              before == Len(receivedPackets[d])
              v == receivedPackets'[d]
          IN /\ SubSeq(v, 1, before) = receivedPackets[d]
             /\ \A i, j \in (before + 1)..Len(v) :
                   i < j => ArrivalPos(arrivalLog'[d], v[i].gid)
                               < ArrivalPos(arrivalLog'[d], v[j].gid)]_vars

-----------------------------------------------------------------------------
(* C7 *)

\* C7: the slots of a driver that are handed out at one time never number
\* more than the pool capacity.
C7_WithinPoolCapacity ==
    \A d \in Drivers : Cardinality(OutstandingSlots(d)) <= PoolCapacity

-----------------------------------------------------------------------------
(* C8 *)

\* C8: a frame addressed to the sending driver itself is never on the
\* hardware transmit ring; the sendPacket that built it leaves it at the tail
\* of the loopback ring, holding the header bytes and then the payload bytes;
\* and its envelope carries those bytes.
C8_LoopbackDelivered ==
    /\ \A d \in Drivers : \A k \in 1..Len(txRing[d]) :
          txRing[d][k].cells[1] # MacCell(localMac(d))
    /\ (/\ last.op = "sendPacket"
        /\ last.m = localMac(last.driver)
        /\ last.outcome \notin {"assert", "allocFailed", "appendFailed"}) =>
            LET ring == loopbackRing[last.driver]
            IN /\ ring # <<>>
               /\ ring[Len(ring)].gid = Len(sentLog)
               /\ FramePayload(ring[Len(ring)].cells, last.n)
                      = ExpectedBytes(sentLog[Len(sentLog)])
    /\ \A d \in Drivers : \A e \in Envelopes(d) :
          (e.payload # NULL /\ sentLog[e.gid].from = d) =>
              EnvelopeBytes(d, e) = ExpectedBytes(sentLog[e.gid])

-----------------------------------------------------------------------------
(* C9 *)

\* C9: a sendPacket whose header and payload exceed getMaxPacketSize returns
\* normally having dropped the packet: nothing is put on a ring and the
\* queue estimator is not charged.
C9_OversizeRejected ==
    (last.op = "sendPacket" /\ last.n > getMaxPacketSize) =>
        /\ ~aborted[last.driver]
        /\ last.outcome \in {"allocFailed", "appendFailed"}

-----------------------------------------------------------------------------
(* C10 *)

\* C10: a sendPacket that cannot allocate a transmit descriptor, or cannot
\* append the frame's space to it, returns normally; no descriptor stays
\* allocated, neither ring changes and the queue estimator is unchanged.
C10_FailedSendLeavesNoTrace ==
    [][(/\ last'.op = "sendPacket"
        /\ last'.outcome \in {"allocFailed", "appendFailed"}) =>
            /\ aborted' = aborted
            /\ mbufsInUse' = mbufsInUse
            /\ txRing' = txRing
            /\ loopbackRing' = loopbackRing
            /\ queueEstimator' = queueEstimator]_vars

\* A sendPacket found no room in the descriptor for its frame and dropped
\* the packet.
C10_Witness ==
    /\ last.op = "sendPacket"
    /\ last.outcome = "appendFailed"
    /\ last.n > MAX_PAYLOAD_SIZE

-----------------------------------------------------------------------------
(* C11 *)

Max(a, b) == IF a > b THEN a ELSE b

\* C11: a driver constructed with bandwidth B Gbit/s has maxTransmitQueueSize
\* = max(floor(B * MAX_DRAIN_TIME / 8), 2 * getMaxPacketSize); B is 10 when
\* the locator names none; B = 40 gives 10000 bytes; and for B = 1 and the
\* packet size of the gbsOption test the result is twice that packet size.
C11_QueueSizeFromBandwidth ==
    /\ \A d \in Drivers :
          built[d] = "ready" =>
              /\ maxTransmitQueueSize[d] =
                     Max((bandwidthGbps[d] * MAX_DRAIN_TIME) \div 8, 2 * getMaxPacketSize)
              /\ bandwidthGbps[d] = TestGbps => maxTransmitQueueSize[d] = TestQueueSize
    /\ built["B"] = "ready" => bandwidthGbps["B"] = DefaultGbps
    /\ MaxTransmitQueueSize(1, TestLowQueueSize \div 2) = TestLowQueueSize

\* A was constructed with a bandwidth so low that two packets are more than
\* the drain time allows, B with the default bandwidth.
C11_Witness ==
    /\ built["A"] = "ready"
    /\ bandwidthGbps["A"] = 0
    /\ maxTransmitQueueSize["A"] = 2 * getMaxPacketSize
    /\ built["B"] = "ready"
    /\ maxTransmitQueueSize["B"] = (DefaultGbps * MAX_DRAIN_TIME) \div 8

-----------------------------------------------------------------------------
(* C12 *)

\* C12: getTransmitQueueSpace(now) returns maxTransmitQueueSize minus the
\* estimated backlog at now as a signed number: never more than
\* maxTransmitQueueSize, equal to it when the backlog is zero, and negative
\* exactly when the backlog exceeds maxTransmitQueueSize.
C12_QueueSpace ==
    last.op = "getTransmitQueueSpace" =>
        LET d == last.driver
            backlog == getQueueSize(queueEstimator[d], last.m)
        IN /\ last.n = maxTransmitQueueSize[d] - backlog
           /\ last.n <= maxTransmitQueueSize[d]
           /\ backlog = 0 => last.n = maxTransmitQueueSize[d]
           /\ last.n < 0 <=> backlog > maxTransmitQueueSize[d]

\* A transport that sent more than the queue size is told a negative space.
C12_Witness ==
    /\ last.op = "getTransmitQueueSpace"
    /\ last.n < 0
    /\ queueEstimator[last.driver].queueSize > maxTransmitQueueSize[last.driver]

-----------------------------------------------------------------------------
(* C13 *)

\* The times at which the estimator may still be asked.
LaterTimes == now..(MaxTime + MaxThrottleSends * getMaxPacketSize)

\* The step just taken charged the estimator of d.
Charged(d) ==
    /\ last'.op = "sendPacket"
    /\ last'.driver = d
    /\ sentLog' # sentLog

\* C13: over calls with non-decreasing times getQueueSize is never negative;
\* right after a packetQueued it is not smaller than right before; with no
\* packetQueued in between it does not grow with time, and it is zero once
\* the time passed at the configured bandwidth covers the backlog.
C13_EstimatorMonotone ==
    /\ [](\A d \in Drivers :
            LET e == queueEstimator[d]
            IN /\ e.queueSize >= 0
               /\ \A t1 \in LaterTimes :
                     /\ getQueueSize(e, t1) >= 0
                     /\ (t1 - e.currentTime) * BytesPerTick >= e.queueSize
                           => getQueueSize(e, t1) = 0
                     /\ \A t2 \in t1..(MaxTime + MaxThrottleSends * getMaxPacketSize) :
                           /\ getQueueSize(e, t2) <= getQueueSize(e, t1)
                           /\ getQueueSize(EstimatorUpdate(e, t1), t2)
                                  = getQueueSize(e, t2))
    /\ [][\A d \in Drivers :
            IF Charged(d)
            THEN getQueueSize(queueEstimator'[d], now')
                     >= getQueueSize(queueEstimator[d], now)
            ELSE getQueueSize(queueEstimator'[d], now')
                     <= getQueueSize(queueEstimator[d], now)]_vars

\* An estimator that drained part of its backlog and was charged again.
C13_Witness ==
    \E d \in Drivers :
        /\ last.op = "sendPacket"
        /\ last.driver = d
        /\ queueEstimator[d].currentTime > 0
        /\ queueEstimator[d].queueSize > last.n
        /\ queueEstimator[d].queueSize < 2 * last.n

-----------------------------------------------------------------------------
(* C14 *)

\* The sends of d that built a frame, that is, its packetQueued calls.
SendsOf(d) == {g \in 1..Len(sentLog) : sentLog[g].from = d}

\* The first send of d since its estimator last reported no backlog.
Horizon(d) ==
    LET idle == {g \in SendsOf(d) : sentLog[g].backlog = 0}
    IN CHOOSE g \in idle : \A h \in idle : h <= g

RECURSIVE QueuedBytes(_, _)
QueuedBytes(d, from) ==
    IF from > Len(sentLog) THEN 0
    ELSE (IF sentLog[from].from = d THEN SentSize(sentLog[from]) ELSE 0)
         + QueuedBytes(d, from + 1)

\* C14: getQueueSize never reports more bytes than were passed to
\* packetQueued since the estimator was created, nor more than were passed
\* since its backlog was last zero.
C14_AtMostQueued ==
    \A d \in Drivers :
        /\ getQueueSize(queueEstimator[d], now) <= QueuedBytes(d, 1)
        /\ SendsOf(d) # {} =>
               getQueueSize(queueEstimator[d], now) <= QueuedBytes(d, Horizon(d))

\* An estimator whose backlog drained to zero between two sends.
C14_Witness ==
    \E d \in Drivers :
        /\ SendsOf(d) # {}
        /\ Horizon(d) > 1
        /\ \E g \in SendsOf(d) : g < Horizon(d)
        /\ queueEstimator[d].queueSize > 0

-----------------------------------------------------------------------------
(* C16 *)

\* C16: the construction of a driver ends with a ready driver or with a
\* DriverException, whatever the locator holds and whatever step of the
\* fabric's initialisation fails.
C16_ReadyOrDriverException ==
    /\ last.op = "construct" => last.outcome \in {"ready", "DriverException"}
    /\ \A d \in Drivers : built[d] \in {"unbuilt", "ready", "DriverException"}

-----------------------------------------------------------------------------
(* C20 *)

\* C20: newAddress ends with NoSuchKeyException when the locator lacks the
\* option and with BadValueException when the option is malformed; in both
\* cases it returns no Address and the driver is as it was before the call.
C20_LocatorErrors ==
    /\ \A mac \in OptionArgs(Macs) :
          /\ mac = Absent <=> NewAddress(mac).outcome = "NoSuchKeyException"
          /\ mac = Malformed <=> NewAddress(mac).outcome = "BadValueException"
          /\ NewAddress(mac).outcome # "ok" <=> NewAddress(mac).address = NULL
    /\ [][last'.op = "newAddress" =>
             /\ last'.outcome \in {"ok", "NoSuchKeyException", "BadValueException"}
             /\ last'.outcome # "ok" <=> last'.n = NULL
             /\ UNCHANGED <<config, aside, aborted, now, rxRing,
                            txRing, loopbackRing, mbufsInUse, packetBufPool, slotMem, packetBufsUtilized,
                            queueEstimator, receivedPackets, stolen, returned,
                            sentLog, arrivalLog>>]_vars

\* A driver with a packet under way was asked for the address of a locator
\* without the option.
C20_Witness ==
    /\ last.op = "newAddress"
    /\ last.outcome = "NoSuchKeyException"
    /\ sentLog # <<>>

-----------------------------------------------------------------------------
(* C17 *)

\* The Address an envelope's sender field refers to.
SenderOf(d, e) == slotMem[d][e.sender].dpdkAddress

\* The drivers at which frame g waits in a ring or was received.
Holders(g) ==
    {d \in Drivers :
        \/ \E k \in 1..Len(rxRing[d]) : rxRing[d][k].gid = g
        \/ \E k \in 1..Len(loopbackRing[d]) : loopbackRing[d][k].gid = g
        \/ \E e \in Envelopes(d) : e.gid = g}

\* C17: the sender of an envelope is the local address of the driver that
\* sent the packet, and a packet the receiving driver sends to that address
\* reaches the original sender and no other driver.
C17_SenderIsSource ==
    \A d \in Drivers : \A e \in Envelopes(d) :
        e.payload # NULL =>
            /\ SenderOf(d, e) = localMac(sentLog[e.gid].from)
            /\ \A g \in 1..Len(sentLog) :
                  (sentLog[g].from = d /\ sentLog[g].to = SenderOf(d, e)) =>
                      Holders(g) \subseteq {sentLog[e.gid].from}

\* B holds a packet from A, and A holds the packet B then sent to that
\* packet's sender.
C17_Witness ==
    \E e \in Envelopes("B"), r \in Envelopes("A") :
        /\ e.payload # NULL
        /\ sentLog[e.gid].from = "A"
        /\ r.gid > e.gid
        /\ sentLog[r.gid].from = "B"
        /\ sentLog[r.gid].to = SenderOf("B", e)

-----------------------------------------------------------------------------
(* C18 *)

\* C18: the Address of a slot that is owned outside the pool, by an envelope
\* or by the caller that stole it, is valid and stays the same over every
\* step that leaves the slot outside the pool; it ends when the slot goes
\* back to the pool.
C18_SenderValidWhileOwned ==
    /\ [](\A d \in Drivers :
            /\ \A s \in OutstandingSlots(d) : slotMem[d][s].dpdkAddress # NULL
            /\ \A e \in Envelopes(d) :
                  e.payload # NULL => SenderOf(d, e) = localMac(sentLog[e.gid].from))
    /\ [][\A d \in Drivers : \A s \in OutstandingSlots(d) :
            IF s \in OutstandingSlots(d)'
            THEN slotMem'[d][s].dpdkAddress = slotMem[d][s].dpdkAddress
            ELSE slotMem'[d][s].dpdkAddress = NULL]_vars

\* The caller holds a stolen payload whose envelope is gone, and the driver
\* has received another packet since.
C18_Witness ==
    /\ last.op = "receivePackets"
    /\ Len(receivedPackets[last.driver]) > last.m
    /\ \E s \in stolen[last.driver] :
          /\ slotMem[last.driver][s].dpdkAddress # NULL
          /\ \A e \in Envelopes(last.driver) : e.sender # s

-----------------------------------------------------------------------------
(* C19 *)

ChunkPayloads(d) == {payloadChunks[d][k] : k \in 1..Len(payloadChunks[d])}

\* C19: while a PayloadChunk holds a stolen payload the payload's slot is not
\* in the pool and counts as in use; creating the chunk releases nothing;
\* and when the Buffer is destroyed or reset each chunk's payload is released
\* once: the slot joins the free list once and the counter drops by one for
\* each chunk.
C19_ChunkReleasesOnce ==
    /\ [](\A d \in Drivers :
            /\ Cardinality(ChunkPayloads(d)) = Len(payloadChunks[d])
            /\ \A s \in ChunkPayloads(d) :
                  /\ s \in stolen[d]
                  /\ CountIn(packetBufPool[d].free, s) = 0
                  /\ slotMem[d][s].dpdkAddress # NULL)
    /\ [][\A d \in Drivers :
            /\ (payloadChunks'[d] # payloadChunks[d] /\ payloadChunks'[d] # <<>>) =>
                   /\ packetBufPool'[d] = packetBufPool[d]
                   /\ packetBufsUtilized'[d] = packetBufsUtilized[d]
            /\ (payloadChunks'[d] # payloadChunks[d] /\ payloadChunks'[d] = <<>>) =>
                   /\ packetBufsUtilized'[d] =
                          packetBufsUtilized[d] - Len(payloadChunks[d])
                   /\ Len(packetBufPool'[d].free) =
                          Len(packetBufPool[d].free) + Len(payloadChunks[d])
                   /\ \A s \in ChunkPayloads(d) :
                          /\ CountIn(packetBufPool'[d].free, s) = 1
                          /\ s \notin stolen'[d]]_vars

\* A Buffer that held two stolen payloads was destroyed.
C19_Witness ==
    /\ last.op = "bufferReset"
    /\ last.outcome = "ok"
    /\ last.n = 2
    /\ Len(packetBufPool[last.driver].free) >= 2

-----------------------------------------------------------------------------
(* C15 *)

\* Neither a receivePackets nor a release of d is under way.
Quiescent(d) == ctx[d].poll.pc = "idle" /\ ctx[d].work.pc = "idle"

\* C15: with release running in a worker beside the polling context, the
\* two are never inside receivePackets and release at once; whenever both
\* are outside, packetBufsUtilized is the number of slots handed out; a slot
\* is never twice in the free list, never in the free list while handed
\* out, and receivePackets never takes the slot a release is returning.
C15_ReleaseBesidePolling ==
    \A d \in Drivers :
        /\ ~(ctx[d].poll.pc # "idle" /\ ctx[d].work.pc # "idle")
        /\ (Quiescent(d) /\ ~aborted[d]) =>
               packetBufsUtilized[d] = Cardinality(OutstandingSlots(d))
        /\ \A s \in Slots(d) :
               /\ CountIn(packetBufPool[d].free, s) <= 1
               /\ s \in OutstandingSlots(d) => CountIn(packetBufPool[d].free, s) = 0
        /\ (ctx[d].poll.buffer # NULL /\ ctx[d].work.pc # "idle") =>
               ctx[d].poll.buffer # ctx[d].work.payload
        /\ ~aborted[d]

\* A worker is inside release, holding the dispatch lock, while a packet
\* waits in the receive ring for the polling context.
C15_Witness ==
    \E d \in Drivers :
        /\ ctx[d].lock = "worker"
        /\ ctx[d].work.pc = "store"
        /\ rxRing[d] # <<>>
        /\ Len(receivedPackets[d]) > 0

-----------------------------------------------------------------------------
(* DpdkDriver::getServiceLocator *)

\* The call logs the string and returns it; last.value is the string
\* returned.
getServiceLocator(d) ==
    /\ Running(d)
    /\ last' = [op |-> "getServiceLocator", driver |-> d, outcome |-> "ok",
                n |-> 0, m |-> 0, value |-> locatorString[d]]
    /\ UNCHANGED <<config, aside, aborted, now, rxRing, txRing, loopbackRing,
                   mbufsInUse, packetBufPool, slotMem, packetBufsUtilized,
                   queueEstimator, receivedPackets, stolen, returned, sentLog,
                   arrivalLog>>

GetServiceLocatorStep == \E d \in Drivers : getServiceLocator(d)

\* The locators driver A is constructed with: none, one that names the
\* all-zeroes address, one that names no address, one that names A's address.
MacLocatorArgs ==
    {NoLocator,
     LocatorAt(IntOption(0), IntOption(0), Absent),
     LocatorAt(Absent, Absent, IntOption(TestGbps)),
     LocatorAt(IntOption(localMac("A")), Absent, IntOption(TestGbps))}

\* Driver A was constructed with one of these locators, driver B without one.
InitLocated ==
    \E locator \in MacLocatorArgs :
        LET a == Construct(locator, Healthy)
            b == Construct(NoLocator, Healthy)
        IN /\ ndebug \in BOOLEAN
           /\ Fresh
           /\ built = [d \in Drivers |-> IF d = "A" THEN a.outcome ELSE b.outcome]
           /\ bandwidthGbps =
                  [d \in Drivers |-> IF d = "A" THEN a.bandwidthGbps ELSE b.bandwidthGbps]
           /\ maxTransmitQueueSize =
                  [d \in Drivers |-> IF d = "A" THEN a.maxTransmitQueueSize
                                     ELSE b.maxTransmitQueueSize]
           /\ localServiceLocator =
                  [d \in Drivers |-> IF d = "A" THEN locator ELSE NoLocator]
           /\ locatorString =
                  [d \in Drivers |-> LocatorString(d, localServiceLocator[d])]
           /\ last = LastOp("init", "A", "ok", 0, 0)

\* Traffic, with calls of getServiceLocator in between.
NextLocated ==
    \/ Next
    \/ GetServiceLocatorStep

SpecLocated == InitLocated /\ [][NextLocated]_vars

\* C21: getServiceLocator returns the driver's locator string, and the string
\* is the same at every call, whatever sendPacket, receivePackets and release
\* did in between: the caller's original string when the locator names an
\* address, and otherwise (no locator, no address or the all-zeroes address)
\* the string that names the address and port the NIC really has.
C21_LocatorStable ==
    /\ [](\A d \in Drivers : Running(d) =>
            LET given == localServiceLocator[d]
                str == locatorString[d]
            IN IF given.null \/ given.mac \in {Absent, IntOption(0)}
               THEN /\ str.fixedUp
                    /\ str.mac = IntOption(localMac(d))
                    /\ str.devport = IntOption(0)
               ELSE /\ ~str.fixedUp
                    /\ str.mac = given.mac
                    /\ str.devport = given.devport
                    /\ str.gbs = given.gbs)
    /\ [](last.op = "getServiceLocator" =>
            last.value = locatorString[last.driver])
    /\ [][\A d \in Drivers :
            built[d] = "ready" => locatorString'[d] = locatorString[d]]_vars

\* A, constructed with the all-zeroes address, is asked for its locator
\* after it has sent, received and released packets.
C21_Witness ==
    /\ last.op = "getServiceLocator"
    /\ last.driver = "A"
    /\ localServiceLocator["A"].mac = IntOption(0)
    /\ last.value.fixedUp
    /\ returned["A"] # {}
    /\ \E g \in 1..Len(sentLog) : sentLog[g].from = "A"

-----------------------------------------------------------------------------
\* C22: receivePackets polls and returns: it can be called whether or not
\* frames are waiting, and a call that finds the receive ring and the
\* loopback ring empty appends nothing to the caller's vector and leaves the
\* PacketBuf pool, the PacketBufs and packetBufsUtilized as they were.
C22_EmptyPollChangesNothing ==
    /\ [](\A d \in Drivers : Running(d) => ENABLED receivePackets(d, 1))
    /\ [][\A d \in Drivers :
            (/\ last'.op = "receivePackets"
             /\ last'.driver = d
             /\ rxRing[d] = <<>>
             /\ loopbackRing[d] = <<>>) =>
                /\ receivedPackets'[d] = receivedPackets[d]
                /\ packetBufPool'[d] = packetBufPool[d]
                /\ slotMem'[d] = slotMem[d]
                /\ packetBufsUtilized'[d] = packetBufsUtilized[d]
                /\ rxRing'[d] = <<>>
                /\ loopbackRing'[d] = <<>>]_vars

\* A driver that holds a packet from an earlier call has polled again and
\* found nothing.
C22_Witness ==
    \E d \in Drivers :
        /\ last.op = "receivePackets"
        /\ last.driver = d
        /\ last.m = Len(receivedPackets[d])
        /\ last.m > 0
        /\ packetBufsUtilized[d] > 0
        /\ rxRing[d] = <<>>
        /\ loopbackRing[d] = <<>>

-----------------------------------------------------------------------------
(* Rings that hold more than one burst *)

\* The g-th frame of a backlog at A: the first rx frames came from B over the
\* wire, the others A sent to itself.  Each has one header byte.
BacklogSent(g, rx) ==
    [from |-> IF g <= rx THEN "B" ELSE "A", to |-> localMac("A"), headerLen |-> 1,
     null |-> TRUE, lens |-> <<>>, backlog |-> 0]

BacklogFrame(g, rx) ==
    [cells |-> BuildFrame(BacklogSent(g, rx).from, localMac("A"), 1, NoPayload),
     gid |-> g]

\* The state of two drivers, where A has this backlog.
\* Rings of the size the constructor really asks for (NDESC descriptors, a
\* loopback ring of 4096 entries) hold more frames than one call takes: A
\* starts with rx frames in its receive ring and loopback frames in its
\* loopback ring, and nothing else has happened.
Crowded(rx, loopback) ==
        /\ ndebug \in BOOLEAN
        /\ built = [d \in Drivers |-> Construct(NoLocator, Healthy).outcome]
        /\ bandwidthGbps = [d \in Drivers |-> Construct(NoLocator, Healthy).bandwidthGbps]
        /\ maxTransmitQueueSize =
               [d \in Drivers |-> Construct(NoLocator, Healthy).maxTransmitQueueSize]
        /\ localServiceLocator = [d \in Drivers |-> NoLocator]
        /\ locatorString = [d \in Drivers |-> LocatorString(d, NoLocator)]
        /\ aborted = [d \in Drivers |-> FALSE]
        /\ now = 0
        /\ rxRing = [d \in Drivers |->
                        IF d = "A" THEN [g \in 1..rx |-> BacklogFrame(g, rx)]
                        ELSE <<>>]
        /\ txRing = [d \in Drivers |-> <<>>]
        /\ loopbackRing =
               [d \in Drivers |->
                   IF d = "A" THEN [i \in 1..loopback |-> BacklogFrame(rx + i, rx)]
                   ELSE <<>>]
        /\ mbufsInUse = [d \in Drivers |-> IF d = "A" THEN loopback ELSE 0]
        /\ packetBufPool = [d \in Drivers |-> [free |-> <<>>, created |-> 0]]
        /\ slotMem = [d \in Drivers |-> <<>>]
        /\ packetBufsUtilized = [d \in Drivers |-> 0]
        /\ queueEstimator = [d \in Drivers |-> [currentTime |-> 0, queueSize |-> 0]]
        /\ receivedPackets = [d \in Drivers |-> <<>>]
        /\ stolen = [d \in Drivers |-> {}]
        /\ returned = [d \in Drivers |-> {}]
        /\ payloadChunks = [d \in Drivers |-> <<>>]
        /\ ctx = [d \in Drivers |-> IdleCtx]
        /\ sentLog = [g \in 1..(rx + loopback) |-> BacklogSent(g, rx)]
        /\ arrivalLog = [d \in Drivers |->
                            IF d = "A" THEN [g \in 1..(rx + loopback) |-> g]
                            ELSE <<>>]
        /\ last = LastOp("init", "A", "ok", 0, 0)

InitCrowded ==
    \E rx \in 0..MaxRxWaiting, loopback \in 0..MaxLoopbackWaiting :
        Crowded(rx, loopback)

\* The caller polls until the rings are empty.
NextCrowded == ReceiveStep

SpecCrowded == InitCrowded /\ [][NextCrowded]_vars

\* The entries of mPkts one call writes: rte_eth_rx_burst fills the first
\* incomingPkts, the dequeue loop the loopbackPkts after them.
MPktsWritten(incomingPkts, loopbackPkts) ==
    {i - 1 : i \in 1..incomingPkts}
        \cup {incomingPkts + i - 1 : i \in 1..loopbackPkts}

\* C23: one call of receivePackets takes at most MAX_PACKETS_AT_ONCE/2 = 16
\* frames from the hardware receive ring and at most 32 frames from both
\* rings together, however many are waiting; every entry of mPkts it writes
\* has an index from 0 to 31; and it delivers exactly the frames it took.
C23_BurstWithinArray ==
    [][\A d \in Drivers :
        (last'.op = "receivePackets" /\ last'.driver = d) =>
            LET incomingPkts == Len(rxRing[d]) - Len(rxRing'[d])
                loopbackPkts == Len(loopbackRing[d]) - Len(loopbackRing'[d])
            IN /\ incomingPkts >= 0
               /\ loopbackPkts >= 0
               /\ incomingPkts <= MAX_PACKETS_AT_ONCE \div 2
               /\ incomingPkts + loopbackPkts <= MAX_PACKETS_AT_ONCE
               /\ MPktsWritten(incomingPkts, loopbackPkts)
                      \subseteq 0..(MAX_PACKETS_AT_ONCE - 1)
               /\ Len(receivedPackets'[d]) - Len(receivedPackets[d])
                      = incomingPkts + loopbackPkts]_vars

\* A call took 32 frames and left frames waiting in both rings.
C23_Witness ==
    /\ last.op = "receivePackets"
    /\ last.driver = "A"
    /\ Len(receivedPackets["A"]) - last.m = MAX_PACKETS_AT_ONCE
    /\ rxRing["A"] # <<>>
    /\ loopbackRing["A"] # <<>>

-----------------------------------------------------------------------------
(* The loopback ring, polled again and again *)

\* A's receive ring is empty or holds a full burst; its loopback ring holds a
\* backlog of more than a burst.
InitLoopback ==
    \E rx \in {0, MAX_PACKETS_AT_ONCE \div 2},
       loopback \in (MAX_PACKETS_AT_ONCE - 1)..MaxLoopbackWaiting :
        Crowded(rx, loopback)

\* A sends itself a packet of one header byte, as long as the estimator
\* reports a backlog of less than MaxSends bytes.
SelfSendStep ==
    /\ getQueueSize(queueEstimator["A"], now) < MaxSends
    /\ sendPacket("A", localMac("A"), 1, NoPayload, TRUE)

NextLoopback ==
    \/ SelfSendStep
    \/ ReceiveStep

\* The caller of each driver keeps calling receivePackets.
SpecLoopback ==
    /\ InitLoopback
    /\ [][NextLoopback]_vars
    /\ \A d \in Drivers :
          WF_vars(\E maxPackets \in MaxPacketsArgs : receivePackets(d, maxPackets))

\* The frames a ring holds, as sequence numbers.
RingGids(ring) == [i \in 1..Len(ring) |-> ring[i].gid]

\* The frames of the envelopes vec[from .. Len(vec)].
EnvelopeGids(vec, from) == [i \in 1..(Len(vec) - from + 1) |-> vec[from + i - 1].gid]

\* The frames that were put on the loopback ring of d, in that order.
LoopbackArrivals(d) ==
    SelectSeq(arrivalLog[d], LAMBDA g : sentLog[g].from = d)

\* Every frame that was put on the loopback ring of d has been returned.
AllLoopbackReturned(d) ==
    /\ loopbackRing[d] = <<>>
    /\ \A k \in 1..Len(LoopbackArrivals(d)) :
          \E i \in 1..Len(receivedPackets[d]) :
              receivedPackets[d][i].gid = LoopbackArrivals(d)[k]

\* C24: a frame that sendPacket put on the loopback ring is returned by a
\* later receivePackets call, provided the caller keeps calling it: whenever
\* frames wait in the ring, a state follows in which every frame put on the
\* ring so far has been returned.  A call takes frames from the head of the
\* ring and returns them in the order they were put there (FIFO); frames it
\* leaves behind stay in the ring in their order; no frame is lost and none
\* is returned twice.
C24_LoopbackEventuallyReturned ==
    /\ (loopbackRing["A"] # <<>>) ~> AllLoopbackReturned("A")
    /\ [][\A d \in Drivers :
            (last'.op = "receivePackets" /\ last'.driver = d) =>
                LET old == RingGids(loopbackRing[d])
                    taken == Len(loopbackRing[d]) - Len(loopbackRing'[d])
                    new == EnvelopeGids(receivedPackets'[d],
                                        Len(receivedPackets[d]) + 1)
                IN /\ taken >= 0 /\ taken <= Len(new)
                   /\ SubSeq(new, Len(new) - taken + 1, Len(new))
                          = SubSeq(old, 1, taken)
                   /\ RingGids(loopbackRing'[d]) = SubSeq(old, taken + 1, Len(old))]_vars
    /\ [](\A d \in Drivers :
            /\ \A i, j \in 1..Len(receivedPackets[d]) :
                  receivedPackets[d][i].gid = receivedPackets[d][j].gid => i = j
            /\ \A i \in 1..Len(receivedPackets[d]), k \in 1..Len(loopbackRing[d]) :
                  receivedPackets[d][i].gid # loopbackRing[d][k].gid)

\* Frames that a call left behind in the loopback ring, and a frame sent
\* after them, have been returned by later calls.
C24_Witness ==
    /\ last.op = "receivePackets"
    /\ last.driver = "A"
    /\ last.m > MAX_PACKETS_AT_ONCE
    /\ Len(receivedPackets["A"]) = Len(arrivalLog["A"])
    /\ loopbackRing["A"] = <<>>
    /\ \E g \in 1..Len(sentLog) :
          /\ sentLog[g].backlog > 0
          /\ \E i \in 1..Len(receivedPackets["A"]) : receivedPackets["A"][i].gid = g

-----------------------------------------------------------------------------
\* C25: every mbuf sendPacket allocated is, once the call has returned, on
\* the loopback ring or in the hardware transmit ring or back in the packet
\* pool, also when the loopback ring was full or the transmit ring accepted
\* nothing: the mbufs of a driver that are out of its packet pool are the
\* frames waiting in its two rings.
C25_NoMbufLeak ==
    \A d \in Drivers :
        mbufsInUse[d] = Len(loopbackRing[d]) + Len(txRing[d])

-----------------------------------------------------------------------------
\* C26: a sendPacket call that hands its frame to the hardware transmit ring
\* charges the estimator once, with totalLength (the Ethernet header not
\* counted), at the current time; a call whose packet was dropped, refused by
\* the transmit ring or put on the loopback ring leaves the estimated
\* backlog as it was.
C26_ChargedWhenQueuedOnNic ==
    [][last'.op = "sendPacket" =>
          LET d == last'.driver
              before == getQueueSize(queueEstimator[d], now)
              after == getQueueSize(queueEstimator'[d], now')
          IN IF last'.outcome = "tx"
             THEN after = before + last'.n
             ELSE after = before]_vars

-----------------------------------------------------------------------------
(* Frames from other stations *)

\* A foreign station sends each driver up to MaxStrays frames, of any length.
StrayStep ==
    \E d \in Drivers, n \in 1..MaxStrayLen :
        /\ Len(arrivalLog[d]) < MaxStrays
        /\ stray(d, n)

NextStray ==
    \/ StrayStep
    \/ ReceiveStep
    \/ DestroyStep

SpecStray == Init /\ [][NextStray]_vars

\* The frames one call of receivePackets took from the rings of d, in the
\* order of mPkts.
FramesTaken(d) ==
    SubSeq(rxRing[d], 1, Len(rxRing[d]) - Len(rxRing'[d]))
        \o SubSeq(loopbackRing[d], 1, Len(loopbackRing[d]) - Len(loopbackRing'[d]))

\* C27: for every frame receivePackets takes from a ring, the number of bytes
\* copied into the PacketBuf is the frame's data length minus the size of the
\* Ethernet header, computed without unsigned wrap-around also when the
\* frame is shorter than the header (the count is then no more than the frame
\* holds); it never exceeds the capacity of the PacketBuf's payload; the
\* envelope's len is that count, the copied bytes are the frame's, and no
\* call dies of the copy.
C27_CopiedLength ==
    [][\A d \in Drivers :
        (last'.op = "receivePackets" /\ last'.driver = d) =>
            LET frames == FramesTaken(d)
                base == Len(receivedPackets[d])
            IN /\ last'.outcome = "ok"
               /\ Len(receivedPackets'[d]) = base + Len(frames)
               /\ \A k \in 1..Len(frames) :
                     LET e == receivedPackets'[d][base + k]
                         dataLen == Len(frames[k].cells)
                     IN /\ e.len >= 0
                        /\ e.len <= dataLen
                        /\ dataLen >= sizeofEthernetHeader =>
                              e.len = dataLen - sizeofEthernetHeader
                        /\ e.len <= MAX_PAYLOAD_SIZE
                        /\ Len(slotMem'[d][e.payload].payload) = MAX_PAYLOAD_SIZE
                        /\ \A i \in 1..Min(e.len, MAX_PAYLOAD_SIZE) :
                              sizeofEthernetHeader + i <= dataLen =>
                                  slotMem'[d][e.payload].payload[i]
                                      = frames[k].cells[sizeofEthernetHeader + i]]_vars

-----------------------------------------------------------------------------
\* C28: packetBufsUtilized is the number of PacketBufs that are out of the
\* pool: those of envelopes whose payload is not NULL and those the caller
\* stole and has not released.  receivePackets adds one for every envelope it
\* returns, every release (by the caller, by an envelope's destructor or by a
\* PayloadChunk's) subtracts one, and no other operation changes the counter;
\* it is zero once every envelope is destroyed and every stolen payload
\* released.
C28_CounterIsOutstanding ==
    /\ [](\A d \in Drivers :
            /\ packetBufsUtilized[d] = Cardinality(OutstandingSlots(d))
            /\ (receivedPackets[d] = <<>> /\ stolen[d] = {}) =>
                  packetBufsUtilized[d] = 0)
    /\ [][\A d \in Drivers :
            LET delta == packetBufsUtilized'[d] - packetBufsUtilized[d]
            IN /\ (last'.op = "receivePackets" /\ last'.driver = d) =>
                      delta = Len(receivedPackets'[d]) - Len(receivedPackets[d])
               /\ delta # 0 =>
                     /\ last'.driver = d
                     /\ \/ last'.op = "receivePackets" /\ delta > 0
                        \/ /\ last'.op \in {"release", "destroyReceived"}
                           /\ delta = -1
                        \/ /\ last'.op = "bufferReset"
                           /\ delta = -Len(payloadChunks[d])]_vars

\* A driver whose counter went up to two and came back to zero: one PacketBuf
\* was released by the caller, the other by an envelope's destructor.
C28_Witness ==
    \E d \in Drivers :
        /\ packetBufPool[d].created = 2
        /\ packetBufsUtilized[d] = 0
        /\ receivedPackets[d] = <<>>
        /\ stolen[d] = {}
        /\ returned[d] # {}
        /\ last.op = "destroyReceived"
        /\ last.outcome = "ok"

-----------------------------------------------------------------------------
(* Envelopes that are moved *)

MoveStep ==
    \E d \in Drivers, newOutlives \in BOOLEAN :
        \E i \in 1..Len(receivedPackets[d]) :
            /\ Len(receivedPackets[d]) < MaxEnvelopes
            /\ moveReceived(d, i, newOutlives)

NextMove ==
    \/ Next
    \/ MoveStep

SpecMove == Init /\ [][NextMove]_vars

\* C29: move-constructing an envelope hands the payload over: the new
\* envelope has the sender, driver, len and payload the other had, the other
\* is left with payload NULL, sender NULL, driver NULL and len 0, and the
\* driver notices nothing.  A PacketBuf therefore never has two owners, and
\* destroying both envelopes, in either order, releases it once: the
\* destructor of the one that holds the payload, and not the other's.
C29_MoveTransfersOwnership ==
    /\ [][last'.op = "moveReceived" =>
            LET d == last'.driver
                end == Len(receivedPackets'[d])
                other == receivedPackets[d][last'.m]
                left == receivedPackets'[d][IF last'.outcome = "newOutlives"
                                            THEN end ELSE last'.m]
                new == receivedPackets'[d][IF last'.outcome = "newOutlives"
                                           THEN last'.m ELSE end]
            IN /\ Len(receivedPackets'[d]) = Len(receivedPackets[d]) + 1
               /\ new.sender = other.sender
               /\ new.driver = other.driver
               /\ new.len = other.len
               /\ new.payload = other.payload
               /\ left.payload = NULL
               /\ left.sender = NULL
               /\ left.driver = NullDriver
               /\ left.len = 0
               /\ packetBufsUtilized' = packetBufsUtilized
               /\ packetBufPool' = packetBufPool
               /\ slotMem' = slotMem
               /\ stolen' = stolen]_vars
    /\ [][last'.op = "destroyReceived" =>
            LET d == last'.driver
                e == receivedPackets[d][Len(receivedPackets[d])]
            IN IF e.payload = NULL
               THEN /\ packetBufsUtilized'[d] = packetBufsUtilized[d]
                    /\ packetBufPool'[d] = packetBufPool[d]
               ELSE /\ packetBufsUtilized'[d] = packetBufsUtilized[d] - 1
                    /\ packetBufPool'[d].free = Append(packetBufPool[d].free, e.payload)]_vars
    /\ [](\A d \in Drivers :
            /\ \A s \in Slots(d) : Owners(d, s) = 1
            /\ packetBufsUtilized[d] = Cardinality(OutstandingSlots(d))
            /\ \A e \in Envelopes(d) :
                  e.driver = NullDriver => e.payload = NULL /\ e.sender = NULL /\ e.len = 0)

\* An envelope was moved and nothing was ever stolen; the envelope that held
\* the payload and the one that was moved from have both been destroyed,
\* and the PacketBuf is back in the pool once.
C29_Witness ==
    \E d \in Drivers :
        /\ last.op = "destroyReceived"
        /\ last.driver = d
        /\ last.outcome = "nothing"
        /\ receivedPackets[d] = <<>>
        /\ stolen[d] = {}
        /\ returned[d] = {}
        /\ packetBufPool[d].created = 1
        /\ packetBufPool[d].free = <<1>>
        /\ packetBufsUtilized[d] = 0

-----------------------------------------------------------------------------
\* C30: steal hands a payload over once: the first steal on an envelope
\* returns its payload and its length, leaves the envelope's payload NULL and
\* makes the caller the holder of the PacketBuf; every later steal on that
\* envelope returns NULL and makes nobody a holder.  A PacketBuf is therefore
\* never held by two parties that would each release it.
C30_StealOnce ==
    /\ [][last'.op = "steal" =>
            LET d == last'.driver
                e == receivedPackets[d][last'.m]
            IN /\ last'.n = e.payload
               /\ last'.len = e.len
               /\ receivedPackets'[d][last'.m].payload = NULL
               /\ packetBufPool' = packetBufPool
               /\ packetBufsUtilized' = packetBufsUtilized
               /\ IF e.payload # NULL
                  THEN /\ e.payload \notin stolen[d]
                       /\ stolen'[d] = stolen[d] \cup {e.payload}
                  ELSE stolen' = stolen]_vars
    /\ [](\A d \in Drivers : \A s \in Slots(d) :
            /\ Owners(d, s) = 1
            /\ s \in stolen[d] => \A e \in Envelopes(d) : e.payload # s)

\* steal was called a second time on an envelope and returned NULL, while
\* the caller still holds the payload the first call gave it.
C30_Witness ==
    /\ last.op = "steal"
    /\ last.n = NULL
    /\ receivedPackets[last.driver][last.m].payload = NULL
    /\ stolen[last.driver] # {}
    /\ Len(receivedPackets[last.driver]) = 1

====
